---------------------------- MODULE Spec2Model ----------------------------
(***************************************************************************)
(* A model of ptterm: the terminal Screen (ptterm/screen.py, BetterScreen)  *)
(* and the Process driver with its POSIX backend (ptterm/process.py,        *)
(* ptterm/backends/posix.py).                                               *)
(*                                                                          *)
(* The Screen object is one record, `screen`; every method of BetterScreen  *)
(* is an operator from a Screen record to the Screen record the method      *)
(* leaves behind, so that methods calling methods compose as in the code.   *)
(* The sparse data buffer (a defaultdict of defaultdicts) is a function     *)
(* from the row indices present to rows, a row a function from the column   *)
(* indices present to cells; a read of a missing key creates it, as a       *)
(* defaultdict does.                                                        *)
(***************************************************************************)
EXTENDS Integers, Sequences, FiniteSets, TLC

VARIABLES
    screen,     \* the BetterScreen object
    shadow,     \* a second Screen fed the same text in other chunks
    snap,       \* the Screen state recorded at the start of a round trip
    phase,      \* position in the scenario of the specification at hand
    lastop,     \* name of the last Screen operation applied
    steps,      \* number of operations applied (bounds the run)
    proc,       \* the Process driver and its backend
    deferred,   \* do_asap callbacks posted to the event loop, oldest first
    fed,        \* chunks fed to the parser (stream.feed), in feeding order
    events      \* trace of the driver: reads, feeds and invalidate calls

vars == <<screen, shadow, snap, phase, lastop, steps, proc, deferred, fed, events>>
screenVars == <<screen, shadow, snap, phase, lastop, steps>>
driverVars == <<proc, deferred, fed, events>>

---------------------------------------------------------------------------
(* Arithmetic and dictionary helpers.                                      *)

Max(a, b) == IF a >= b THEN a ELSE b
Min(a, b) == IF a <= b THEN a ELSE b
MaxOf(S) == CHOOSE m \in S : \A k \in S : k <= m
MinOf(S) == CHOOSE m \in S : \A k \in S : m <= k

\* An optional value (None, or an object) is a sequence of length 0 or 1.
None == << >>
Some(v) == <<v>>

\* An omitted integer argument (None) of a method.
NoArg == 0 - 1

\* `count or 1`: None and 0 both give 1.
Or1(count) == IF count = NoArg \/ count = 0 THEN 1 ELSE count

\* A Char of prompt_toolkit: its text, its display width and its style string.
Cell(ch, w, st) == [char |-> ch, width |-> w, style |-> st]

\* Width of one code point (prompt_toolkit get_cwidth): "WW" stands for a
\* double-width (CJK) character, "^" for a combining mark, "" for the empty
\* text of a sentinel cell.
CharWidth(ch) == IF ch = "WW" THEN 2 ELSE IF ch \in {"^", ""} THEN 0 ELSE 1

\* Char(" ", ""), the default of every row.
DefaultChar == Cell(" ", 1, "")

EmptyRow == << >>
EmptyBuffer == << >>

\* row[c] of a defaultdict: the value read.
Get(row, c) == IF c \in DOMAIN row THEN row[c] ELSE DefaultChar
\* row[c] of a defaultdict: the dict after the read (a missing key is created).
Touch(row, c) == [k \in (DOMAIN row) \cup {c} |-> IF k \in DOMAIN row THEN row[k] ELSE DefaultChar]
\* row[c] = v
Put(row, c, v) == [k \in (DOMAIN row) \cup {c} |-> IF k = c THEN v ELSE row[k]]
\* del row[c] / row.pop(c, None)
Del(row, c) == [k \in (DOMAIN row) \ {c} |-> row[k]]

\* data_buffer[y]: the row read, and the buffer after the read.
Row(db, y) == IF y \in DOMAIN db THEN db[y] ELSE EmptyRow
TouchRow(db, y) == [k \in (DOMAIN db) \cup {y} |-> IF k \in DOMAIN db THEN db[k] ELSE EmptyRow]
PutRow(db, y, row) == [k \in (DOMAIN db) \cup {y} |-> IF k = y THEN row ELSE db[k]]
PopRow(db, y) == [k \in (DOMAIN db) \ {y} |-> db[k]]

\* data_buffer[y][x]: the cell read, and the buffer after the read.
CellAt(db, y, x) == Get(Row(db, y), x)
TouchCell(db, y, x) == PutRow(db, y, Touch(Row(db, y), x))

---------------------------------------------------------------------------
(* Mode codes (pyte.modes). Private codes are shifted left by five bits.   *)

Private(m) == m * 32
LNM == 20
IRM == 4
DECCOLM == Private(3)
DECSCNM == Private(5)
DECOM == Private(6)
DECAWM == Private(7)
DECTCEM == Private(25)
ALTSCREEN == Private(1049)

\* Charset translation maps (pyte.charsets): LAT1_MAP leaves ASCII alone,
\* VT100_MAP sends "a" to the checkerboard glyph, written "#" here.
Translate(map, ch) == IF map = "VT100_MAP" /\ ch = "a" THEN "#" ELSE ch

DefaultAttrs ==
    [color |-> "", bgcolor |-> "", bold |-> FALSE, underline |-> FALSE,
     italic |-> FALSE, blink |-> FALSE, reverse |-> FALSE, hidden |-> FALSE]

\* Interval of clean-up calls: index evicts scrollback every 100th call.
CleanupInterval == 100

\* tabstops = set(range(8, 1000, 8))
DefaultTabstops == {8 * k : k \in 1..124}


---------------------------------------------------------------------------
(* BetterScreen: construction and reset.                                   *)

\* _reset_screen: a fresh pt_screen (show_cursor set), empty buffer, cursor
\* home, no wrapped lines, default attributes, no margins, max_y = 0.
reset_screen(s) ==
    [s EXCEPT !.show_cursor = TRUE,
              !.data_buffer = EmptyBuffer,
              !.cursor = [x |-> 0, y |-> 0],
              !.wrapped_lines = << >>,
              !.attrs = DefaultAttrs,
              !.style_str = "",
              !.margins = None,
              !.max_y = 0]

\* __init__ followed by reset(): the Screen after construction.
NewScreen(lines, columns, history_limit) ==
    [lines |-> lines, columns |-> columns, history_limit |-> history_limit,
     history_cleanup_counter |-> 0,
     savepoints |-> << >>,
     show_cursor |-> TRUE,
     data_buffer |-> EmptyBuffer,
     cursor |-> [x |-> 0, y |-> 0],
     wrapped_lines |-> << >>,
     attrs |-> DefaultAttrs,
     style_str |-> "",
     margins |-> None,
     max_y |-> 0,
     mode |-> {DECAWM, DECTCEM},
     charset |-> 0,
     g0_charset |-> "LAT1_MAP",
     g1_charset |-> "VT100_MAP",
     tabstops |-> DefaultTabstops,
     original_screen |-> None,
     raised |-> ""]

\* The first visible line.
line_offset(s) == Max(0, Min(s.cursor.y, s.max_y - s.lines + 1))

\* self.margins or Margins(0, self.lines - 1)
margins_or_full(s) ==
    IF s.margins = None THEN [top |-> 0, bottom |-> s.lines - 1] ELSE s.margins[1]

in_alternate_screen(s) == s.original_screen # None

---------------------------------------------------------------------------
(* Cursor motion.                                                          *)

\* A mutant of ensure_bounds: the column is clamped to columns, not columns - 1.
ensure_bounds_offbyone(s, use_margins) ==
    LET tb == IF s.margins # None /\ (use_margins \/ DECOM \in s.mode)
              THEN s.margins[1] ELSE [top |-> 0, bottom |-> s.lines - 1]
        lo == line_offset(s)
    IN [s EXCEPT !.cursor = [x |-> Min(Max(0, s.cursor.x), s.columns),
                             y |-> Min(Max(tb.top + lo, s.cursor.y), tb.bottom + lo + 1)]]

ensure_bounds(s, use_margins) ==
    LET tb == IF s.margins # None /\ (use_margins \/ DECOM \in s.mode)
              THEN s.margins[1] ELSE [top |-> 0, bottom |-> s.lines - 1]
        lo == line_offset(s)
    IN [s EXCEPT !.cursor = [x |-> Min(Max(0, s.cursor.x), s.columns - 1),
                             y |-> Min(Max(tb.top + lo, s.cursor.y), tb.bottom + lo + 1)]]

carriage_return(s) == [s EXCEPT !.cursor.x = 0]

cursor_down(s, count) ==
    LET bottom == margins_or_full(s).bottom
        y == Min(s.cursor.y + Or1(count), bottom + line_offset(s) + 1)
    IN [s EXCEPT !.cursor.y = y, !.max_y = Max(s.max_y, y)]

cursor_down1(s, count) == carriage_return(cursor_down(s, count))

cursor_up(s, count) ==
    ensure_bounds([s EXCEPT !.cursor.y = s.cursor.y - Or1(count)], TRUE)

cursor_up1(s, count) == carriage_return(cursor_up(s, count))

cursor_back(s, count) ==
    ensure_bounds([s EXCEPT !.cursor.x = Max(0, s.cursor.x - Or1(count))], FALSE)

cursor_forward(s, count) ==
    ensure_bounds([s EXCEPT !.cursor.x = s.cursor.x + Or1(count)], FALSE)

backspace(s) == cursor_back(s, NoArg)

cursor_position(s, line, column) ==
    LET col == Or1(column) - 1
        ln0 == Or1(line) - 1
        origin == s.margins # None /\ DECOM \in s.mode
        ln == IF origin THEN ln0 + s.margins[1].top ELSE ln0
    IN IF origin /\ ~(s.margins[1].top <= ln /\ ln <= s.margins[1].bottom)
       THEN s
       ELSE ensure_bounds([s EXCEPT !.cursor = [x |-> col, y |-> ln + line_offset(s)]], FALSE)

cursor_to_column(s, column) ==
    ensure_bounds([s EXCEPT !.cursor.x = Or1(column) - 1], FALSE)

cursor_to_line(s, line) ==
    LET y0 == Or1(line) - 1 + line_offset(s)
        y1 == IF DECOM \in s.mode /\ s.margins # None THEN y0 + s.margins[1].top ELSE y0
    IN ensure_bounds([s EXCEPT !.cursor.y = y1], FALSE)

\* tab: the first tab stop right of the cursor, else the last column.
tab(s) ==
    LET right == {stop \in s.tabstops : s.cursor.x < stop}
    IN [s EXCEPT !.cursor.x = IF right # {} THEN MinOf(right) ELSE s.columns - 1]

set_tab_stop(s) == [s EXCEPT !.tabstops = s.tabstops \cup {s.cursor.x}]

clear_tab_stop(s, type_of) ==
    IF type_of = NoArg \/ type_of = 0
    THEN [s EXCEPT !.tabstops = s.tabstops \ {s.cursor.x}]
    ELSE IF type_of = 3
    THEN [s EXCEPT !.tabstops = {},
                   !.original_screen = IF s.original_screen = None THEN None
                                       ELSE Some([s.original_screen[1] EXCEPT !.tabstops_shared = FALSE])]
    ELSE s

shift_in(s) == [s EXCEPT !.charset = 0]
shift_out(s) == [s EXCEPT !.charset = 1]

---------------------------------------------------------------------------
(* Index, reverse index, linefeed and scrollback eviction.                 *)

\* A mutant of the eviction: one row more than the history limit is kept.
remove_old_lines_keep_one_more(s) ==
    LET remove_above == Max(0, s.cursor.y - s.history_limit - 1)
    IN [s EXCEPT !.data_buffer = [k \in {r \in DOMAIN s.data_buffer : r >= remove_above} |-> s.data_buffer[k]]]

remove_old_lines_from_history(s) ==
    LET remove_above == Max(0, s.cursor.y - s.history_limit)
    IN [s EXCEPT !.data_buffer = [k \in {r \in DOMAIN s.data_buffer : r >= remove_above} |-> s.data_buffer[k]]]

\* A variant of the scroll of index that copies the rows without removing
\* the row copied from.
RECURSIVE index_scroll_without_pop(_, _, _, _)
index_scroll_without_pop(db, line, bottom, lo) ==
    IF line >= bottom THEN db
    ELSE index_scroll_without_pop(PutRow(db, line + lo, Row(db, line + lo + 1)),
                                  line + 1, bottom, lo)

\* for line in range(top, bottom): row line+1 moves to row line.
RECURSIVE index_scroll(_, _, _, _)
index_scroll(db, line, bottom, lo) ==
    IF line >= bottom THEN db
    ELSE index_scroll(PopRow(PutRow(db, line + lo, Row(db, line + lo + 1)), line + lo + 1),
                      line + 1, bottom, lo)

index(s) ==
    IF s.margins = None
    THEN LET y == s.cursor.y + 1
             moved == [s EXCEPT !.cursor.y = y, !.max_y = Max(s.max_y, y),
                                !.history_cleanup_counter = s.history_cleanup_counter + 1]
         IN IF moved.history_cleanup_counter = CleanupInterval
            THEN [remove_old_lines_from_history(moved) EXCEPT !.history_cleanup_counter = 0]
            ELSE moved
    ELSE LET lo == line_offset(s)
             m == s.margins[1]
         IN IF s.cursor.y - lo = m.bottom
            THEN [s EXCEPT !.data_buffer = index_scroll(s.data_buffer, m.top, m.bottom, lo)]
            ELSE cursor_down(s, NoArg)

\* for i in range(bottom - 1, top - 1, -1): row i moves to row i+1.
RECURSIVE reverse_scroll(_, _, _, _)
reverse_scroll(db, i, top, lo) ==
    IF i < top THEN db
    ELSE reverse_scroll(PopRow(PutRow(db, i + lo + 1, Row(db, i + lo)), i + lo),
                        i - 1, top, lo)

reverse_index(s) ==
    LET m == margins_or_full(s)
        lo == line_offset(s)
    IN IF s.cursor.y - lo = m.top
       THEN [s EXCEPT !.data_buffer = reverse_scroll(s.data_buffer, m.bottom - 1, m.top, lo)]
       ELSE cursor_up(s, NoArg)

\* A variant of linefeed that returns the carriage whatever the mode.
linefeed_with_carriage_return(s) == carriage_return(index(s))

linefeed(s) ==
    LET t == index(s)
    IN IF LNM \in t.mode THEN carriage_return(t) ELSE t

next_line(s) == ensure_bounds(carriage_return(index(s)), FALSE)

\* clear_history: rows above the first visible line are dropped; line_offset
\* is read again at every row, and does not depend on the buffer.
clear_history(s) ==
    [s EXCEPT !.data_buffer = [k \in {r \in DOMAIN s.data_buffer : r >= line_offset(s)} |-> s.data_buffer[k]]]

---------------------------------------------------------------------------
(* Character edits on the cursor row.                                      *)

\* for i in range(max_columns, x - 1, -1): line[i + count] = line[i]; del line[i]
RECURSIVE insert_shift(_, _, _, _)
insert_shift(line, i, x, count) ==
    IF i < x THEN line
    ELSE insert_shift(Del(Put(line, i + count, Get(line, i)), i), i - 1, x, count)

\* insert_characters reads the cursor of the Screen object (pt_cursor_position).
insert_characters(s, count) ==
    LET n == Or1(count)
        y == s.cursor.y
        line == Row(s.data_buffer, y)
    IN IF line = EmptyRow
       THEN [s EXCEPT !.data_buffer = TouchRow(s.data_buffer, y)]
       ELSE [s EXCEPT !.data_buffer =
                PutRow(s.data_buffer, y, insert_shift(line, MaxOf(DOMAIN line), s.cursor.x, n))]

\* for i in range(x, max_columns + 1): line[i] = line[i + count]; del line[i + count]
RECURSIVE delete_shift(_, _, _, _)
delete_shift(line, i, last, count) ==
    IF i > last THEN line
    ELSE delete_shift(Del(Put(line, i, Get(line, i + count)), i + count), i + 1, last, count)

delete_characters(s, count) ==
    LET n == Or1(count)
        y == s.cursor.y
        line == Row(s.data_buffer, y)
    IN IF line = EmptyRow
       THEN [s EXCEPT !.data_buffer = TouchRow(s.data_buffer, y)]
       ELSE [s EXCEPT !.data_buffer =
                PutRow(s.data_buffer, y, delete_shift(line, s.cursor.x, MaxOf(DOMAIN line), n))]

\* row[column] = Char(style=row[column].style) for the columns erased.
erase_characters(s, count) ==
    LET n == Or1(count)
        y == s.cursor.y
        row == Row(s.data_buffer, y)
        cols == {c \in s.cursor.x .. (Min(s.cursor.x + n, s.columns) - 1) : TRUE}
        erased == [k \in (DOMAIN row) \cup cols |->
                      IF k \in cols THEN Cell(" ", 1, Get(row, k).style) ELSE row[k]]
    IN [s EXCEPT !.data_buffer = PutRow(s.data_buffer, y, erased)]

erase_in_line(s, type_of) ==
    LET y == s.cursor.y
        line == Row(s.data_buffer, y)
        keep == {c \in DOMAIN line :
                    ~ ((type_of = 0 /\ c >= s.cursor.x) \/ (type_of = 1 /\ c <= s.cursor.x))}
    IN IF type_of = 2
       THEN [s EXCEPT !.data_buffer = PopRow(s.data_buffer, y)]
       ELSE [s EXCEPT !.data_buffer = PutRow(s.data_buffer, y, [k \in keep |-> line[k]])]

erase_in_display(s, type_of) ==
    LET lo == line_offset(s)
        db == s.data_buffer
    IN IF DOMAIN db = {}
       THEN s
       ELSE LET max_line == MaxOf(DOMAIN db)
                interval == IF type_of = 0 THEN (s.cursor.y + 1) .. max_line
                            ELSE IF type_of = 1 THEN lo .. (s.cursor.y - 1)
                            ELSE lo .. max_line
                blanked == [k \in (DOMAIN db) \cup interval |->
                               IF k \in interval THEN EmptyRow ELSE db[k]]
            IN IF type_of = 3
               THEN [s EXCEPT !.data_buffer = EmptyBuffer, !.cursor.y = 0, !.max_y = 0]
               ELSE IF type_of \notin {0, 1, 2}
               THEN s
               ELSE IF type_of \in {0, 1}
               THEN erase_in_line([s EXCEPT !.data_buffer = blanked], type_of)
               ELSE [s EXCEPT !.data_buffer = blanked]

---------------------------------------------------------------------------
(* Line edits inside the scroll region.                                    *)

\* for line in range(bottom, cursor_row, -1)
RECURSIVE insert_lines_loop(_, _, _, _, _, _)
insert_lines_loop(db, line, stop, top, lo, count) ==
    IF line <= stop THEN db
    ELSE IF line - count < top
    THEN insert_lines_loop(PopRow(db, line + lo), line - 1, stop, top, lo, count)
    ELSE insert_lines_loop(
            PopRow(PutRow(db, line + lo, Row(db, line + lo - count)), line + lo - count),
            line - 1, stop, top, lo, count)

insert_lines(s, count) ==
    LET n == Or1(count)
        m == margins_or_full(s)
        lo == line_offset(s)
        c == s.cursor.y - lo
    IN IF m.top <= c /\ c <= m.bottom
       THEN carriage_return(
               [s EXCEPT !.data_buffer = insert_lines_loop(s.data_buffer, m.bottom, c, m.top, lo, n)])
       ELSE s

\* A variant of the loop of delete_lines that leaves the rows at the bottom
\* of the region in place.
RECURSIVE delete_lines_loop_keeps_bottom(_, _, _, _, _)
delete_lines_loop_keeps_bottom(db, line, bottom, lo, count) ==
    IF line > bottom \/ line + count > bottom THEN db
    ELSE delete_lines_loop_keeps_bottom(
            PutRow(TouchRow(db, line + count + lo), line + lo, Row(db, line + count + lo)),
            line + 1, bottom, lo, count)

\* for line in range(cursor_row, bottom + 1)
RECURSIVE delete_lines_loop(_, _, _, _, _)
delete_lines_loop(db, line, bottom, lo, count) ==
    IF line > bottom THEN db
    ELSE IF line + count > bottom
    THEN delete_lines_loop(PopRow(db, line + lo), line + 1, bottom, lo, count)
    ELSE delete_lines_loop(
            PutRow(TouchRow(db, line + count + lo), line + lo, Row(db, line + count + lo)),
            line + 1, bottom, lo, count)

delete_lines(s, count) ==
    LET n == Or1(count)
        m == margins_or_full(s)
        lo == line_offset(s)
        c == s.cursor.y - lo
    IN IF m.top <= c /\ c <= m.bottom
       THEN [s EXCEPT !.data_buffer = delete_lines_loop(s.data_buffer, c, m.bottom, lo, n)]
       ELSE s

\* set_margins; NoArg stands for an omitted bound.
set_margins(s, top, bottom) ==
    IF top = NoArg /\ bottom = NoArg THEN s
    ELSE LET m == margins_or_full(s)
             t0 == IF top = NoArg THEN m.top ELSE top - 1
             b0 == IF bottom = NoArg THEN m.bottom ELSE bottom - 1
             t1 == Max(0, Min(t0, s.lines - 1))
             b1 == Max(0, Min(b0, s.lines - 1))
         IN IF b1 - t1 >= 1
            THEN cursor_position([s EXCEPT !.margins = Some([top |-> t1, bottom |-> b1])], NoArg, NoArg)
            ELSE s

reset_offset_and_margins(s) == [s EXCEPT !.margins = None]

---------------------------------------------------------------------------
(* draw.                                                                   *)

\* One round of `for char in chars`. x and y are the locals
\* cursor_position_x and cursor_position_y; s.cursor.x is the attribute of the
\* cursor object, which draw writes back only after the loop (a wrap's
\* carriage_return sets it to 0 in between).
\* self.wrapped_lines.append(self.pt_cursor_position.y), and the local
\* copies re-read from the cursor.
draw_wrapped(s) ==
    [s |-> [s EXCEPT !.wrapped_lines = Append(s.wrapped_lines, s.cursor.y)],
     x |-> s.cursor.x,
     y |-> s.cursor.y]

\* Step 2 of the loop body: a cursor in or beyond the last column wraps
\* (DECAWM; the row wrapped onto is recorded) or steps back by the width of
\* the character. r is the screen with the local copies x, y of the cursor.
draw_wrap(r, ch) ==
    IF r.x >= r.s.columns
    THEN IF DECAWM \in r.s.mode
         THEN draw_wrapped(linefeed(carriage_return(r.s)))
         ELSE [r EXCEPT !.x = r.x - Max(0, CharWidth(ch))]
    ELSE r

\* Step 3: in insert mode insert_characters shifts the row; it reads the
\* cursor of the Screen, which the loop updates only when it ends.
draw_insert(r, ch, in_irm) ==
    IF in_irm THEN [r EXCEPT !.s = insert_characters(r.s, Max(0, CharWidth(ch)))] ELSE r

\* Step 4: the cell written for a character of width 1, 2 (with its
\* zero-width sentinel) or 0 (joined to the cell on the left).
draw_row(row, x, ch, style) ==
    IF CharWidth(ch) = 1 THEN Put(row, x, Cell(ch, 1, style))
    ELSE IF CharWidth(ch) > 1
    THEN Put(Put(row, x, Cell(ch, CharWidth(ch), style)), x + 1, Cell("", 0, style))
    ELSE Put(row, x - 1, Cell(Get(row, x - 1).char \o ch, Get(row, x - 1).width,
                              Get(row, x - 1).style))

draw_put(r, ch) ==
    [s |-> [r.s EXCEPT !.data_buffer =
                PutRow(r.s.data_buffer, r.y,
                       draw_row(Row(r.s.data_buffer, r.y), r.x, ch, r.s.style_str))],
     x |-> r.x + CharWidth(ch),
     y |-> r.y]

\* One turn of the loop of draw.
draw_char(r, ch, in_irm) == draw_put(draw_insert(draw_wrap(r, ch), ch, in_irm), ch)

RECURSIVE draw_loop(_, _, _, _)
draw_loop(r, chars, i, in_irm) ==
    IF i > Len(chars) \/ r.y # r.y THEN r  \* (the second test only evaluates r)
    ELSE draw_loop(draw_char(r, chars[i], in_irm), chars, i + 1, in_irm)

\* chars.translate(g1_charset if charset else g0_charset)
translate_chars(s, chars) ==
    [i \in 1..Len(chars) |->
        Translate(IF s.charset # 0 THEN s.g1_charset ELSE s.g0_charset, chars[i])]

\* A variant of the end of draw that leaves max_y as it was.
draw_end_without_max_y(r) == [r.s EXCEPT !.cursor.x = r.x]

\* After the loop: max_y and the x of the cursor are written back.
draw_end(r) ==
    [r.s EXCEPT !.max_y = IF r.y > r.s.max_y THEN r.y ELSE r.s.max_y,
                !.cursor.x = r.x]

draw(s, chars) ==
    draw_end(draw_loop([s |-> s, x |-> s.cursor.x, y |-> s.cursor.y],
                       translate_chars(s, chars), 1, IRM \in s.mode))

\* alignment_display: the visible window filled with "E".
alignment_display(s) ==
    LET lo == line_offset(s)
        rows == lo .. (lo + s.lines - 1)
        filled(row) == [k \in (DOMAIN row) \cup (0 .. (s.columns - 1)) |->
                           IF k \in 0 .. (s.columns - 1) THEN Cell("E", 1, "") ELSE row[k]]
    IN [s EXCEPT !.data_buffer =
           [k \in (DOMAIN s.data_buffer) \cup rows |->
               IF k \in rows THEN filled(Row(s.data_buffer, k)) ELSE s.data_buffer[k]]]

---------------------------------------------------------------------------
(* Select graphic rendition.                                               *)

HexDigits == <<"0", "1", "2", "3", "4", "5", "6", "7", "8", "9", "a", "b", "c", "d", "e", "f">>

RECURSIVE Hex(_)
Hex(n) == IF n < 16 THEN HexDigits[n + 1] ELSE Hex(n \div 16) \o HexDigits[(n % 16) + 1]

\* "%02x"
Hex02(n) == IF n < 16 THEN "0" \o Hex(n) ELSE Hex(n)

ColorStr(r, g, b) == "#" \o Hex02(r) \o Hex02(g) \o Hex02(b)

\* _fg_colors / _bg_colors: the ANSI codes with their colour names
\* (prompt_toolkit FG_ANSI_COLORS, BG_ANSI_COLORS), "#" put in front.
AnsiNames ==
    <<"ansiblack", "ansired", "ansigreen", "ansiyellow", "ansiblue", "ansimagenta",
      "ansicyan", "ansigray">>
AnsiBrightNames ==
    <<"ansibrightblack", "ansibrightred", "ansibrightgreen", "ansibrightyellow",
      "ansibrightblue", "ansibrightmagenta", "ansibrightcyan", "ansiwhite">>

fg_codes == (30..37) \cup {39} \cup (90..97)
bg_codes == (40..47) \cup {49} \cup (100..107)

fg_colors(attr) ==
    IF attr = 39 THEN "#ansidefault"
    ELSE IF attr <= 37 THEN "#" \o AnsiNames[attr - 29]
    ELSE "#" \o AnsiBrightNames[attr - 89]

bg_colors(attr) ==
    IF attr = 49 THEN "#ansidefault"
    ELSE IF attr <= 47 THEN "#" \o AnsiNames[attr - 39]
    ELSE "#" \o AnsiBrightNames[attr - 99]

\* _256_colors.get(1024 + m): the colour table of prompt_toolkit (16 basic
\* colours, the 6x6x6 cube, the grey ramp); "" stands for None.
CubeValues == <<0, 95, 135, 175, 215, 255>>
BasicColors ==
    <<"#000000", "#cd0000", "#00cd00", "#cdcd00", "#0000ee", "#cd00cd", "#00cdcd", "#e5e5e5",
      "#7f7f7f", "#ff0000", "#00ff00", "#ffff00", "#5c5cff", "#ff00ff", "#00ffff", "#ffffff">>

colors_256(m) ==
    IF m < 0 THEN ""
    ELSE IF m < 16 THEN BasicColors[m + 1]
    ELSE IF m < 233
    THEN LET i == m - 16
         IN ColorStr(CubeValues[((i \div 36) % 6) + 1], CubeValues[((i \div 6) % 6) + 1],
                     CubeValues[(i % 6) + 1])
    ELSE IF m < 254
    THEN LET v == 8 + (m - 232) * 10 IN ColorStr(v, v, v)
    ELSE ""

\* The loop `while attrs: attr = attrs.pop()` over the parameters in the order
\* given; `replace` collects the fields to change, `base` is self._attrs (set
\* to the defaults by a 0), `raised` the exception of a pop from an empty list.
RECURSIVE sgr_loop(_, _, _, _)
sgr_loop(params, i, replace, base) ==
    IF i > Len(params) THEN [replace |-> replace, base |-> base, raised |-> ""]
    ELSE LET attr == params[i]
             set(field, v) == [k \in (DOMAIN replace) \cup {field} |-> IF k = field THEN v ELSE replace[k]]
             left == Len(params) - i
         IN IF attr \in fg_codes THEN sgr_loop(params, i + 1, set("color", <<fg_colors(attr)>>), base)
            ELSE IF attr \in bg_codes THEN sgr_loop(params, i + 1, set("bgcolor", <<bg_colors(attr)>>), base)
            ELSE IF attr = 1 THEN sgr_loop(params, i + 1, set("bold", <<TRUE>>), base)
            ELSE IF attr = 3 THEN sgr_loop(params, i + 1, set("italic", <<TRUE>>), base)
            ELSE IF attr = 4 THEN sgr_loop(params, i + 1, set("underline", <<TRUE>>), base)
            ELSE IF attr \in {5, 6} THEN sgr_loop(params, i + 1, set("blink", <<TRUE>>), base)
            ELSE IF attr = 7 THEN sgr_loop(params, i + 1, set("reverse", <<TRUE>>), base)
            ELSE IF attr = 8 THEN sgr_loop(params, i + 1, set("hidden", <<TRUE>>), base)
            ELSE IF attr = 22 THEN sgr_loop(params, i + 1, set("bold", <<FALSE>>), base)
            ELSE IF attr = 23 THEN sgr_loop(params, i + 1, set("italic", <<FALSE>>), base)
            ELSE IF attr = 24 THEN sgr_loop(params, i + 1, set("underline", <<FALSE>>), base)
            ELSE IF attr = 25 THEN sgr_loop(params, i + 1, set("blink", <<FALSE>>), base)
            ELSE IF attr = 27 THEN sgr_loop(params, i + 1, set("reverse", <<FALSE>>), base)
            ELSE IF attr = 0 THEN sgr_loop(params, i + 1, << >>, DefaultAttrs)
            ELSE IF attr \in {38, 48}
            THEN LET field == IF attr = 38 THEN "color" ELSE "bgcolor"
                 IN IF left = 0 THEN [replace |-> replace, base |-> base, raised |-> "IndexError"]
                    ELSE LET n == params[i + 1]
                         IN IF n = 5
                            THEN IF left < 2
                                 THEN [replace |-> replace, base |-> base, raised |-> "IndexError"]
                                 ELSE sgr_loop(params, i + 3, set(field, <<colors_256(params[i + 2])>>), base)
                            ELSE IF n = 2
                            THEN IF left < 4
                                 THEN sgr_loop(params, Len(params) + 1, replace, base)
                                 ELSE sgr_loop(params, i + 5,
                                               set(field, <<ColorStr(params[i + 2], params[i + 3], params[i + 4])>>),
                                               base)
                            ELSE sgr_loop(params, i + 2, replace, base)
            ELSE sgr_loop(params, i + 1, replace, base)

\* self._attrs._replace(**replace)
attrs_replace(base, replace) ==
    [k \in DOMAIN base |-> IF k \in DOMAIN replace THEN replace[k][1] ELSE base[k]]

\* The style string built from the attributes.
build_style_str(a) ==
    (IF a.color # "" THEN a.color \o " " ELSE "")
    \o (IF a.bgcolor # "" THEN "bg:" \o a.bgcolor \o " " ELSE "")
    \o (IF a.bold THEN "bold " ELSE "")
    \o (IF a.italic THEN "italic " ELSE "")
    \o (IF a.underline THEN "underline " ELSE "")
    \o (IF a.blink THEN "blink " ELSE "")
    \o (IF a.reverse THEN "reverse " ELSE "")
    \o (IF a.hidden THEN "hidden " ELSE "")

\* select_graphic_rendition(*attrs_tuple); no parameter at all means [0].
select_graphic_rendition(s, attrs_tuple) ==
    LET r == sgr_loop(IF attrs_tuple = << >> THEN <<0>> ELSE attrs_tuple, 1, << >>, s.attrs)
        attrs_obj == attrs_replace(r.base, r.replace)
    IN IF r.raised # ""
       THEN [s EXCEPT !.attrs = r.base, !.raised = r.raised]
       ELSE [s EXCEPT !.attrs = attrs_obj, !.style_str = build_style_str(attrs_obj)]

---------------------------------------------------------------------------
(* Resize and reflow.                                                      *)

\* str.isspace() of a cell's text, for the texts the model draws.
IsSpace(ch) == ch = " "

\* The inner loop of the unwrap: the cells of one row, columns 0..max(row),
\* are appended to `line`; the cursor (cy, cx) is rewritten to (index of the
\* logical line, position in it) when the loop meets it.
RECURSIVE unwrap_columns(_, _, _, _, _, _, _, _)
unwrap_columns(row, column_index, last, line, n_lines, row_index, cy, cx) ==
    IF column_index > last \/ Len(line) < 0 \/ cy # cy \/ cx # cx  \* (only the first test decides)
    THEN [line |-> line, cy |-> cy, cx |-> cx]
    ELSE LET hit == cy = row_index /\ cx = column_index
         IN unwrap_columns(row, column_index + 1, last, Append(line, Get(row, column_index)),
                           n_lines, row_index,
                           IF hit THEN n_lines - 1 ELSE cy,
                           IF hit THEN Len(line) ELSE cx)

\* The outer loop of the unwrap over range(min(data_buffer), max(data_buffer) + 1);
\* the last element of all_lines is the line being filled.
RECURSIVE unwrap_rows(_, _, _, _, _, _, _)
unwrap_rows(db, row_index, last, all_lines, cy, cx, wrapped_lines) ==
    IF row_index > last \/ Len(all_lines) < 0 \/ cy # cy \/ cx # cx  \* (only the first test decides)
    THEN [all_lines |-> all_lines, cy |-> cy, cx |-> cx]
    ELSE LET row == Touch(Row(db, row_index), 0)
             n == Len(all_lines)
             r == unwrap_columns(row, 0, MaxOf(DOMAIN row), all_lines[n], n, row_index, cy, cx)
             filled == [all_lines EXCEPT ![n] = r.line]
             is_wrapped == \E k \in 1..Len(wrapped_lines) : wrapped_lines[k] = row_index + 1
         IN unwrap_rows(db, row_index + 1, last,
                        IF is_wrapped THEN filled ELSE Append(filled, << >>),
                        r.cy, r.cx, wrapped_lines)

\* Trailing cells of blank text and empty style are dropped, down to one cell,
\* and not past the cursor.
RECURSIVE strip_line(_, _, _)
strip_line(line, on_cursor_line, cx) ==
    IF Len(line) > 1 /\ IsSpace(line[Len(line)].char) /\ line[Len(line)].style = ""
       /\ ~(on_cursor_line /\ Len(line) - 1 = cx)
    THEN strip_line(SubSeq(line, 1, Len(line) - 1), on_cursor_line, cx)
    ELSE line

\* The wrap loop: st = [db, row, col, wrapped, cy, cx], the new buffer, the
\* place of the next cell, the new wrapped lines, and the cursor, which is
\* rewritten to the new place of its cell when the loop meets it.
RECURSIVE wrap_columns(_, _, _, _, _)
wrap_columns(line, column_index, row_index, width, st) ==
    IF column_index >= Len(line) \/ st.row # st.row THEN st  \* (only the first test decides)
    ELSE LET char == line[column_index + 1]
             brk == st.col + char.width > width
             row == IF brk THEN st.row + 1 ELSE st.row
             col == IF brk THEN 0 ELSE st.col
             hit == st.cy = row_index /\ st.cx = column_index
         IN wrap_columns(line, column_index + 1, row_index, width,
               [db |-> PutRow(st.db, row, Put(Row(st.db, row), col, char)),
                row |-> row,
                col |-> col + char.width,
                wrapped |-> IF brk THEN Append(st.wrapped, row) ELSE st.wrapped,
                cy |-> IF hit THEN row ELSE st.cy,
                cx |-> IF hit THEN col ELSE st.cx])

RECURSIVE wrap_lines(_, _, _, _)
wrap_lines(all_lines, i, width, st) ==
    IF i > Len(all_lines) \/ st.row # st.row THEN st  \* (only the first test decides)
    ELSE LET r == wrap_columns(all_lines[i], 0, i - 1, width, st)
         IN wrap_lines(all_lines, i + 1, width, [r EXCEPT !.row = r.row + 1, !.col = 0])

reflow_wrap(all_lines, width, offset, cy, cx) ==
    wrap_lines(all_lines, 1, width,
               [db |-> EmptyBuffer, row |-> offset, col |-> 0, wrapped |-> << >>,
                cy |-> cy, cx |-> cx])

\* The unwrap of the buffer db (the old buffer with the cells the method
\* reads created in it) into logical lines.
reflow_unwrap(s, db) ==
    unwrap_rows(db, MinOf(DOMAIN db), MaxOf(DOMAIN db), << << >> >>,
                s.cursor.y, s.cursor.x, s.wrapped_lines)

reflow_strip(u) ==
    [i \in 1..Len(u.all_lines) |-> strip_line(u.all_lines[i], i - 1 = u.cy, u.cx)]

\* The end of the method: the new buffer (with the cell under the cursor
\* read, hence created), wrapped lines and cursor are installed, then the
\* character under the cursor is compared and max_y is set. The rows deleted
\* below cy + lines are rows of the old buffer, which is dropped here: the
\* deletion leaves no trace.
reflow_install(s, new_db, w, cursor_character) ==
    IF cursor_character # CellAt(w.db, w.cy, w.cx).char
    THEN [s EXCEPT !.data_buffer = new_db,
                   !.wrapped_lines = w.wrapped,
                   !.cursor = [x |-> w.cx, y |-> w.cy],
                   !.raised = "Reflow failed"]
    ELSE [s EXCEPT !.data_buffer = new_db,
                   !.wrapped_lines = w.wrapped,
                   !.cursor = [x |-> w.cx, y |-> w.cy],
                   !.max_y = Min(MaxOf(DOMAIN new_db), w.cy + s.lines - 1)]

reflow_wrapped(s, w, cursor_character) ==
    reflow_install(s, TouchCell(w.db, w.cy, w.cx), w, cursor_character)

reflow_unwrapped(s, offset, u, cursor_character) ==
    reflow_wrapped(s, reflow_wrap(reflow_strip(u), s.columns, offset, u.cy, u.cx),
                   cursor_character)

reflow_buffer(s, db, cursor_character) ==
    reflow_unwrapped(s, MinOf(DOMAIN db), reflow_unwrap(s, db), cursor_character)

\* data_buffer[cy][cx] and data_buffer[cy][cy] are read, hence created.
reflow(s) ==
    reflow_buffer(s,
                  TouchCell(TouchCell(s.data_buffer, s.cursor.y, s.cursor.x),
                            s.cursor.y, s.cursor.y),
                  CellAt(s.data_buffer, s.cursor.y, s.cursor.x).char)

\* resize(lines, columns); NoArg keeps the dimension.
resize(s, lines, columns) ==
    LET l == IF lines = NoArg THEN s.lines ELSE lines
        c == IF columns = NoArg THEN s.columns ELSE columns
    IN IF s.lines # l \/ s.columns # c
       THEN LET sized == reset_offset_and_margins([s EXCEPT !.lines = l, !.columns = c])
            IN reflow([sized EXCEPT !.max_y = Min(sized.max_y, sized.cursor.y + l - 1)])
       ELSE s

---------------------------------------------------------------------------
(* Modes and the alternate screen.                                         *)

\* The state kept on entering the alternate screen: _original_screen (the
\* pt_screen, with its show_cursor flag) and _original_screen_vars. The mode
\* set is kept by reference and is the very set the Screen goes on changing,
\* so it needs no copy here; tabstops is kept by reference too, and stays the
\* same object until clear_tab_stop(3) binds a new set (tabstops_shared).
screen_backup(s) ==
    [show_cursor |-> s.show_cursor,
     margins |-> s.margins,
     charset |-> s.charset,
     g0_charset |-> s.g0_charset,
     g1_charset |-> s.g1_charset,
     tabstops |-> s.tabstops,
     tabstops_shared |-> TRUE,
     data_buffer |-> s.data_buffer,
     cursor |-> s.cursor,
     max_y |-> s.max_y]

\* The shifted codes of a set_mode / reset_mode call.
shifted_modes(modes, private) == IF private THEN {Private(m) : m \in modes} ELSE modes

\* The part of set_mode / reset_mode for DECCOLM: resize, erase, home. An
\* exception of the resize ends the call.
deccolm_erase(r) ==
    IF r.raised # "" THEN r ELSE cursor_position(erase_in_display(r, 2), NoArg, NoArg)

deccolm(s, columns) == deccolm_erase(resize(s, NoArg, columns))

\* "if mo.DECCOLM in modes", "if mo.DECOM in modes": the blocks the two
\* methods share. A call that raised runs no further block.
mode_deccolm(s, ms, columns) == IF DECCOLM \in ms THEN deccolm(s, columns) ELSE s

mode_decom(s, ms) ==
    IF s.raised = "" /\ DECOM \in ms THEN cursor_position(s, NoArg, NoArg) ELSE s

mode_dectcem(s, ms, show) ==
    IF s.raised = "" /\ DECTCEM \in ms THEN [s EXCEPT !.show_cursor = show] ELSE s

\* On 1049, set: the backup is taken and the alternate screen starts empty.
enter_alternate_screen(s, ms) ==
    IF s.raised = "" /\ ALTSCREEN \in ms
    THEN reset_offset_and_margins(
            reset_screen([s EXCEPT !.original_screen = Some(screen_backup(s))]))
    ELSE s

\* "for k, v in self._original_screen_vars.items(): setattr(self, k, v)" with
\* "self.pt_screen = self._original_screen", for the backup o.
restore_screen_vars_without_cursor(s, o) ==
    [s EXCEPT !.margins = o.margins,
              !.charset = o.charset,
              !.g0_charset = o.g0_charset,
              !.g1_charset = o.g1_charset,
              !.tabstops = IF o.tabstops_shared THEN s.tabstops ELSE o.tabstops,
              !.data_buffer = o.data_buffer,
              !.max_y = o.max_y,
              !.show_cursor = o.show_cursor]

restore_screen_vars(s, o) ==
    [s EXCEPT !.margins = o.margins,
              !.charset = o.charset,
              !.g0_charset = o.g0_charset,
              !.g1_charset = o.g1_charset,
              !.tabstops = IF o.tabstops_shared THEN s.tabstops ELSE o.tabstops,
              !.data_buffer = o.data_buffer,
              !.cursor = o.cursor,
              !.max_y = o.max_y,
              !.show_cursor = o.show_cursor]

\* On 1049, reset, with a backup at hand: the backup is put back and dropped.
leave_alternate_screen(s, ms) ==
    IF s.raised = "" /\ ALTSCREEN \in ms /\ s.original_screen # None
    THEN reset_offset_and_margins(
            [restore_screen_vars(s, s.original_screen[1]) EXCEPT !.original_screen = None])
    ELSE s

set_mode_shifted(s, ms) ==
    enter_alternate_screen(
        mode_dectcem(
            mode_decom(
                mode_deccolm([s EXCEPT !.mode = s.mode \cup ms], ms, 132),
                ms),
            ms, TRUE),
        ms)

set_mode(s, modes, private) == set_mode_shifted(s, shifted_modes(modes, private))

reset_mode_shifted(s, ms) ==
    leave_alternate_screen(
        mode_dectcem(
            mode_decom(
                mode_deccolm([s EXCEPT !.mode = s.mode \ ms], ms, 80),
                ms),
            ms, FALSE),
        ms)

reset_mode(s, modes, private) == reset_mode_shifted(s, shifted_modes(modes, private))

---------------------------------------------------------------------------
(* The savepoint stack.                                                    *)

save_cursor(s) ==
    [s EXCEPT !.savepoints = Append(s.savepoints,
        [cursor_x |-> s.cursor.x, cursor_y |-> s.cursor.y,
         g0_charset |-> s.g0_charset, g1_charset |-> s.g1_charset, charset |-> s.charset,
         origin |-> DECOM \in s.mode, wrap |-> DECAWM \in s.mode,
         attrs |-> s.attrs, style_str |-> s.style_str])]

\* The savepoint's charsets and attributes, and the savepoint popped.
restore_saved_attrs(s, savepoint) ==
    [s EXCEPT !.savepoints = SubSeq(s.savepoints, 1, Len(s.savepoints) - 1),
              !.g0_charset = savepoint.g0_charset,
              !.g1_charset = savepoint.g1_charset,
              !.charset = savepoint.charset,
              !.attrs = savepoint.attrs,
              !.style_str = savepoint.style_str]

restore_saved_origin(s, savepoint) ==
    IF savepoint.origin THEN set_mode(s, {DECOM}, FALSE) ELSE s

restore_saved_wrap(s, savepoint) ==
    IF savepoint.wrap THEN set_mode(s, {DECAWM}, FALSE) ELSE s

restore_saved_cursor(s, savepoint) ==
    ensure_bounds([s EXCEPT !.cursor = [x |-> savepoint.cursor_x, y |-> savepoint.cursor_y]], TRUE)

restore_savepoint(s, savepoint) ==
    restore_saved_cursor(
        restore_saved_wrap(
            restore_saved_origin(restore_saved_attrs(s, savepoint), savepoint),
            savepoint),
        savepoint)

restore_cursor(s) ==
    IF s.savepoints # << >>
    THEN restore_savepoint(s, s.savepoints[Len(s.savepoints)])
    ELSE cursor_position(reset_mode(s, {DECOM}, FALSE), NoArg, NoArg)

---------------------------------------------------------------------------
(* Bounds of the model, and the inputs the operations are tried with.      *)

\* Operations applied to one Screen in a run of Spec.
MaxSteps == 4
\* Largest count, line or column argument of an operation.
MaxArg == 2
\* Largest dimension of a Screen (lines, columns) in the small-screen runs.
MaxDim == 2
\* Operations that lead to the state a scenario starts from.
MaxSetup == 3
\* Operations applied in the alternate screen.
MaxAlt == 2
\* Operations applied between save_cursor and restore_cursor.
MaxSaved == 2
\* Operations that build the content a resize reflows.
MaxBuild == 5
\* Operations applied around an eviction of old rows.
MaxHist == 5

Dims == 1..MaxDim
Args == 1..MaxArg
\* A letter, a blank, a character of width 2 and a combining character.
DrawChars == {"a", " ", "WW", "^"}

\* Process after __init__ (with the PosixTerminal it creates): not started,
\* not suspended, the pty open, no reader on the loop. avail counts the
\* chunks the child has written and the driver has not read, written and
\* nread the chunks written and read so far.
IdleProc ==
    [started |-> FALSE, suspended |-> FALSE, reader_connected |-> FALSE, master_open |-> TRUE,
     loop_reader |-> FALSE, readded |-> FALSE, set_results |-> 0, done_callbacks |-> 0,
     closed |-> FALSE, child |-> "none", has_priority |-> TRUE,
     avail |-> 0, written |-> 0, nread |-> 0, ready_f_done |-> FALSE]

\* The driver is idle in the specifications of the Screen alone.
DriverIdle == proc = IdleProc /\ deferred = << >> /\ fed = << >> /\ events = << >>

\* The exception of the last call is that call's alone.
Begin(s) == [s EXCEPT !.raised = ""]

---------------------------------------------------------------------------
(* Spec: every operation of the Screen, on small screens, from the Screen  *)
(* after construction.                                                     *)

Init ==
    /\ \E l \in Dims, c \in Dims : screen = NewScreen(l, c, 1)
    /\ shadow = None /\ snap = None /\ phase = "ops" /\ lastop = "init" /\ steps = 0
    /\ DriverIdle

\* Operations applied in a row in each phase of a run.
StepLimit ==
    CASE phase = "ops" -> MaxSteps
      [] phase = "setup" -> MaxSetup
      [] phase = "alt" -> MaxAlt
      [] phase = "saved" -> MaxSaved
      [] phase = "build" -> MaxBuild
      [] phase = "hist" -> MaxHist
      [] OTHER -> 0

Op(name, s) ==
    /\ steps < StepLimit
    /\ screen' = s
    /\ lastop' = name
    /\ steps' = steps + 1
    /\ UNCHANGED <<shadow, snap, phase, driverVars>>

Draw == \E ch \in DrawChars : Op("draw", draw(Begin(screen), <<ch>>))
Tab == Op("tab", tab(Begin(screen)))
Linefeed == Op("linefeed", linefeed(Begin(screen)))
ReverseIndex == Op("reverse_index", reverse_index(Begin(screen)))
NextLine == Op("next_line", next_line(Begin(screen)))
CarriageReturn == Op("carriage_return", carriage_return(Begin(screen)))
CursorUp == \E n \in Args : Op("cursor_up", cursor_up(Begin(screen), n))
CursorDown == \E n \in Args : Op("cursor_down", cursor_down(Begin(screen), n))
CursorForward == \E n \in Args : Op("cursor_forward", cursor_forward(Begin(screen), n))
CursorBack == \E n \in Args : Op("cursor_back", cursor_back(Begin(screen), n))
CursorPosition == \E l \in Args, c \in Args : Op("cursor_position", cursor_position(Begin(screen), l, c))
CursorToColumn == \E c \in Args : Op("cursor_to_column", cursor_to_column(Begin(screen), c))
CursorToLine == \E l \in Args : Op("cursor_to_line", cursor_to_line(Begin(screen), l))
EraseInLine == \E k \in 0..2 : Op("erase_in_line", erase_in_line(Begin(screen), k))
EraseInDisplay == \E k \in 0..3 : Op("erase_in_display", erase_in_display(Begin(screen), k))
EraseCharacters == \E n \in Args : Op("erase_characters", erase_characters(Begin(screen), n))
InsertCharacters == \E n \in Args : Op("insert_characters", insert_characters(Begin(screen), n))
DeleteCharacters == \E n \in Args : Op("delete_characters", delete_characters(Begin(screen), n))
InsertLines == \E n \in Args : Op("insert_lines", insert_lines(Begin(screen), n))
DeleteLines == \E n \in Args : Op("delete_lines", delete_lines(Begin(screen), n))
SetMargins == \E t \in Args, b \in Args : Op("set_margins", set_margins(Begin(screen), t, b))
SetMode ==
    \/ \E m \in {3, 6, 7, 25, 1049} : Op("set_mode", set_mode(Begin(screen), {m}, TRUE))
    \/ \E m \in {IRM, LNM} : Op("set_mode", set_mode(Begin(screen), {m}, FALSE))
ResetMode ==
    \/ \E m \in {3, 6, 7, 25, 1049} : Op("reset_mode", reset_mode(Begin(screen), {m}, TRUE))
    \/ \E m \in {IRM, LNM} : Op("reset_mode", reset_mode(Begin(screen), {m}, FALSE))
Resize == \E l \in Dims, c \in Dims : Op("resize", resize(Begin(screen), l, c))
SaveCursor == Op("save_cursor", save_cursor(Begin(screen)))
RestoreCursor == Op("restore_cursor", restore_cursor(Begin(screen)))

Next ==
    \/ Draw \/ Tab \/ Linefeed \/ ReverseIndex \/ NextLine \/ CarriageReturn
    \/ CursorUp \/ CursorDown \/ CursorForward \/ CursorBack
    \/ CursorPosition \/ CursorToColumn \/ CursorToLine
    \/ EraseInLine \/ EraseInDisplay \/ EraseCharacters
    \/ InsertCharacters \/ DeleteCharacters \/ InsertLines \/ DeleteLines
    \/ SetMargins \/ SetMode \/ ResetMode \/ Resize \/ SaveCursor \/ RestoreCursor

Spec == Init /\ [][Next]_vars

\* Operations whose last step is ensure_bounds, on every path through them.
EnsureBoundsOps ==
    {"cursor_up", "cursor_back", "cursor_forward", "cursor_to_column", "cursor_to_line",
     "next_line", "restore_cursor"}

(* C1, as stated: after any sequence of Screen operations, 0 <= cursor.x <  *)
(* columns and cursor.y >= 0.                                               *)
C1_CursorInsideColumns ==
    /\ 0 <= screen.cursor.x /\ screen.cursor.x < screen.columns
    /\ screen.cursor.y >= 0

(* C1, amended: after any sequence of Screen operations cursor.x >= 0 and   *)
(* cursor.y >= 0, and cursor.x < columns right after every operation that   *)
(* ends in ensure_bounds; draw may leave cursor.x = columns and tab may     *)
(* leave it on a tab stop at or beyond columns.                             *)
C1_CursorBounds ==
    /\ screen.cursor.x >= 0
    /\ screen.cursor.y >= 0
    /\ lastop \in EnsureBoundsOps => screen.cursor.x < screen.columns

\* C1's case: a motion to the right was clamped after a draw had put the
\* cursor past the last column.
C1_Witness ==
    /\ lastop = "cursor_forward"
    /\ screen.columns > 1
    /\ screen.cursor.x = screen.columns - 1
    /\ DOMAIN screen.data_buffer # {}

---------------------------------------------------------------------------
(* The scenario specifications start like Spec and reach the state their     *)
(* scenario starts from with at most MaxSetup operations of Spec.            *)

InitSetup ==
    /\ \E l \in Dims, c \in Dims : screen = NewScreen(l, c, 1)
    /\ shadow = None /\ snap = None /\ phase = "setup" /\ lastop = "init" /\ steps = 0
    /\ DriverIdle

InSetup == phase = "setup"

---------------------------------------------------------------------------
(* SpecChunk: one text drawn by one call of draw and, from the same state,  *)
(* by two calls on its two parts.                                           *)

\* Longest text drawn at once.
MaxText == 2

Texts == UNION {[1..n -> DrawChars] : n \in 2..MaxText}

ChunkSetup ==
    /\ InSetup
    /\ \/ Draw \/ CarriageReturn \/ CursorBack \/ Linefeed
       \/ \E m \in {IRM} : Op("set_mode", set_mode(Begin(screen), {m}, FALSE))
       \/ \E m \in {7} : Op("reset_mode", reset_mode(Begin(screen), {m}, TRUE))

\* screen: draw(chars); shadow: draw(chars[:k]) then draw(chars[k:]).
SplitDraw ==
    /\ phase = "setup"
    /\ \E chars \in Texts, k \in 1..(MaxText - 1) :
          /\ k < Len(chars)
          /\ screen' = draw(Begin(screen), chars)
          /\ shadow' = draw(draw(Begin(screen), SubSeq(chars, 1, k)),
                            SubSeq(chars, k + 1, Len(chars)))
    /\ phase' = "drawn"
    /\ lastop' = "draw"
    /\ UNCHANGED <<snap, steps, driverVars>>

NextChunk == ChunkSetup \/ SplitDraw

SpecChunk == InitSetup /\ [][NextChunk]_vars

(* C2: drawing a text in one call of draw and drawing it in two calls, split *)
(* anywhere, leave the same Screen: cells, cursor, wrapped lines and max_y,  *)
(* in every mode, insert mode (IRM) and autowrap (DECAWM) included.          *)
C2_ChunkIndependence == phase = "drawn" => screen = shadow

---------------------------------------------------------------------------
(* SpecDriver: Process (process.py) over the POSIX backend. A chunk is      *)
(* [id, raises]: id numbers the chunks in the order read_text returned      *)
(* them; raises says that feeding it makes a Screen operation raise. fed is *)
(* the sequence of chunks given to the parser; events logs read_text,       *)
(* stream.feed and invalidate calls. deferred is the queue of do_asap       *)
(* callbacks posted with call_soon_threadsafe, run in the order posted.     *)

\* Chunks the child writes in a run.
MaxChunks == 3
\* Calls of _read at the end of the stream in a run (resume puts the reader
\* back on the loop even after the end of the stream was read).
MaxEofReads == 2

Event(op, id) == [op |-> op, id |-> id]

\* loop.add_reader(master, ready) and loop.remove_reader(master): loop_reader
\* says that the master fd is registered on the event loop, readded that it
\* was added while it was registered already.
add_reader(p) == [p EXCEPT !.loop_reader = TRUE, !.readded = p.readded \/ p.loop_reader]

remove_reader(p) == [p EXCEPT !.loop_reader = FALSE]

\* A variant of connect_reader that does not look at _reader_connected.
connect_reader_unguarded(p) ==
    IF p.master_open THEN [add_reader(p) EXCEPT !.reader_connected = TRUE] ELSE p

\* PosixTerminal.connect_reader / disconnect_reader on the terminal part of p.
connect_reader(p) ==
    IF p.master_open /\ ~p.reader_connected
    THEN [add_reader(p) EXCEPT !.reader_connected = TRUE]
    ELSE p

disconnect_reader(p) ==
    IF p.master_open /\ p.reader_connected
    THEN [remove_reader(p) EXCEPT !.reader_connected = FALSE]
    ELSE p

\* A variant of done() that leaves the reader on the loop.
waitpid_done_keeps_reader(p) ==
    [p EXCEPT !.master_open = FALSE, !.ready_f_done = TRUE, !.set_results = p.set_results + 1]

\* done() of _waitpid: disconnect_reader, the pty closed and master set to
\* None, ready_f.set_result(None); set_results counts the set_result calls.
waitpid_done(p) ==
    [disconnect_reader(p) EXCEPT !.master_open = FALSE, !.ready_f_done = TRUE,
                                 !.set_results = p.set_results + 1]

\* Process.suspend and Process.resume on p.
suspend(p) ==
    IF ~p.suspended THEN disconnect_reader([p EXCEPT !.suspended = TRUE]) ELSE p

resume(p) ==
    IF p.suspended THEN [connect_reader(p) EXCEPT !.suspended = FALSE] ELSE p

\* A variant of process() that asks for the redraw before it feeds the chunk.
process_invalidate_first(ev, c) ==
    IF c.raises
    THEN ev \o <<Event("invalidate", c.id), Event("feed_raised", c.id)>>
    ELSE ev \o <<Event("invalidate", c.id), Event("feed", c.id)>>

\* process() of _read on the log: stream.feed(d), then invalidate(); a feed
\* that raises ends the call before invalidate.
process(ev, c) ==
    IF c.raises
    THEN Append(ev, Event("feed_raised", c.id))
    ELSE ev \o <<Event("feed", c.id), Event("invalidate", c.id)>>

InitDriver ==
    /\ screen = NewScreen(0, 0, 1)
    /\ shadow = None /\ snap = None /\ phase = "driver" /\ lastop = "init" /\ steps = 0
    /\ DriverIdle

\* Process.start: set_size(120, 24), terminal.start() (fork), connect_reader.
Start ==
    /\ ~proc.started
    /\ screen' = resize(Begin(screen), 24, 120)
    /\ proc' = connect_reader([proc EXCEPT !.started = TRUE, !.child = "running"])
    /\ UNCHANGED <<shadow, snap, phase, lastop, steps, deferred, fed, events>>

\* The child writes a chunk to the pty.
ChildWrite ==
    /\ proc.child = "running"
    /\ proc.written < MaxChunks
    /\ proc' = [proc EXCEPT !.avail = proc.avail + 1, !.written = proc.written + 1]
    /\ UNCHANGED <<screenVars, deferred, fed, events>>

\* The child exits: the pty reads end of file once it is drained.
ChildExit ==
    /\ proc.child = "running"
    /\ proc' = [proc EXCEPT !.child = "exited"]
    /\ UNCHANGED <<screenVars, deferred, fed, events>>

\* _read with a chunk from read_text and the backend not closed: the chunk
\* is processed at once with priority, else the reader is taken off the loop
\* and do_asap is posted.
ReadChunk ==
    /\ proc.reader_connected /\ proc.master_open
    /\ proc.avail > 0
    /\ ~proc.closed
    /\ \E raises \in BOOLEAN :
         LET c == [id |-> proc.nread + 1, raises |-> raises]
             p == [proc EXCEPT !.avail = proc.avail - 1, !.nread = proc.nread + 1]
             ev == Append(events, Event("read", c.id))
         IN IF p.has_priority
            THEN /\ proc' = p
                 /\ events' = process(ev, c)
                 /\ fed' = Append(fed, c.id)
                 /\ UNCHANGED deferred
            ELSE /\ proc' = disconnect_reader(p)
                 /\ events' = ev
                 /\ deferred' = Append(deferred, c)
                 /\ UNCHANGED fed
    /\ UNCHANGED screenVars

\* _read at the end of the stream: read_text returns "" and the reader is
\* closed from then on; the reader is taken off the loop.
ReadEof ==
    /\ proc.reader_connected /\ proc.master_open
    /\ proc.avail = 0 /\ proc.child = "exited"
    /\ Len(SelectSeq(events, LAMBDA e : e.op = "read_eof")) < MaxEofReads
    /\ proc' = disconnect_reader([proc EXCEPT !.closed = TRUE])
    /\ events' = Append(events, Event("read_eof", proc.nread + 1))
    /\ UNCHANGED <<screenVars, deferred, fed>>

\* do_asap: process(), then the reader goes back on the loop unless
\* suspended; a feed that raises ends do_asap before that.
DoAsap ==
    /\ deferred # << >>
    /\ LET c == Head(deferred)
       IN /\ events' = process(events, c)
          /\ fed' = Append(fed, c.id)
          /\ proc' = IF ~c.raises /\ ~proc.suspended THEN connect_reader(proc) ELSE proc
    /\ deferred' = Tail(deferred)
    /\ UNCHANGED screenVars

\* Process.suspend and Process.resume, called in a state where they act.
Suspend ==
    /\ ~proc.suspended
    /\ proc' = suspend(proc)
    /\ UNCHANGED <<screenVars, deferred, fed, events>>

Resume ==
    /\ proc.suspended
    /\ proc' = resume(proc)
    /\ UNCHANGED <<screenVars, deferred, fed, events>>

\* The answer of has_priority changes (the pane gains or loses the focus).
SetPriority ==
    /\ proc' = [proc EXCEPT !.has_priority = ~proc.has_priority]
    /\ UNCHANGED <<screenVars, deferred, fed, events>>

\* done() of _waitpid, some time after the child exited: the reader is
\* taken off the loop, the pty is closed and ready_f is set.
WaitpidDone ==
    /\ proc.child = "exited" /\ proc.master_open
    /\ proc' = waitpid_done(proc)
    /\ UNCHANGED <<screenVars, deferred, fed, events>>

NextDriver ==
    \/ Start \/ ChildWrite \/ ChildExit \/ ReadChunk \/ ReadEof \/ DoAsap
    \/ Suspend \/ Resume \/ SetPriority \/ WaitpidDone

SpecDriver == InitDriver /\ [][NextDriver]_vars

(* C3: the chunks are fed to the parser in the order they were read, under  *)
(* every interleaving of _read, the deferred callbacks, suspend, resume and *)
(* changes of has_priority.                                                 *)
C3_FedInReadOrder == \A i \in 1..Len(fed), j \in 1..Len(fed) : i < j => fed[i] < fed[j]

\* The events of one kind, and those of one kind for one chunk.
EventsOf(op) == {i \in 1..Len(events) : events[i].op = op}

EventsFor(op, id) == {i \in 1..Len(events) : events[i].op = op /\ events[i].id = id}

DeferredIds == {deferred[k].id : k \in 1..Len(deferred)}

---------------------------------------------------------------------------
(* SpecAlt: a primary screen is built, the alternate screen is entered      *)
(* (snap is the Screen at that moment), drawn on, moved in and erased, and  *)
(* left again (shadow is the alternate Screen at that moment).              *)

AltSetup ==
    /\ InSetup
    /\ \/ Draw \/ Linefeed \/ CarriageReturn \/ CursorUp \/ CursorBack \/ SetMargins \/ Tab

EnterAlt ==
    /\ phase = "setup"
    /\ snap' = screen
    /\ screen' = set_mode(Begin(screen), {1049}, TRUE)
    /\ phase' = "alt"
    /\ lastop' = "set_mode"
    /\ steps' = 0
    /\ UNCHANGED <<shadow, driverVars>>

AltOps ==
    /\ phase = "alt"
    /\ \/ Draw \/ Linefeed \/ ReverseIndex \/ CarriageReturn \/ Tab
       \/ CursorUp \/ CursorDown \/ CursorForward \/ CursorBack \/ CursorPosition
       \/ EraseInLine \/ EraseInDisplay \/ EraseCharacters

LeaveAlt ==
    /\ phase = "alt"
    /\ shadow' = screen
    /\ screen' = reset_mode(Begin(screen), {1049}, TRUE)
    /\ phase' = "back"
    /\ lastop' = "reset_mode"
    /\ UNCHANGED <<snap, steps, driverVars>>

NextAlt == AltSetup \/ EnterAlt \/ AltOps \/ LeaveAlt

SpecAlt == InitSetup /\ [][NextAlt]_vars

(* C4: set_mode(1049), then draws, cursor motions and erases (no resize),   *)
(* then reset_mode(1049), leave the data buffer equal cell for cell, and    *)
(* the cursor equal, to what they were right before the set_mode.           *)
C4_AltScreenRoundTrip ==
    phase = "back" =>
        /\ screen.data_buffer = snap.data_buffer
        /\ screen.cursor = snap.cursor

\* C4's case: a primary screen with text and a moved cursor came back after
\* the alternate screen had been drawn on with its cursor elsewhere.
C4_Witness ==
    /\ phase = "back"
    /\ DOMAIN snap.data_buffer # {}
    /\ snap.cursor # [x |-> 0, y |-> 0]
    /\ DOMAIN shadow.data_buffer # {}
    /\ shadow.data_buffer # snap.data_buffer
    /\ shadow.cursor # snap.cursor
    /\ screen.cursor = snap.cursor

---------------------------------------------------------------------------
(* SpecSave: save_cursor (snap is the Screen at that moment), then cursor   *)
(* motions and select_graphic_rendition calls, then restore_cursor.         *)

\* Parameter lists of select_graphic_rendition: bold, red, reverse, reset.
SgrArgs == {<<1>>, <<31>>, <<7>>, <<0>>}

SelectGraphicRendition ==
    \E a \in SgrArgs : Op("select_graphic_rendition", select_graphic_rendition(Begin(screen), a))

SaveSetup ==
    /\ InSetup
    /\ \/ Draw \/ Linefeed \/ CarriageReturn \/ CursorBack \/ SetMargins
       \/ SelectGraphicRendition
       \/ \E m \in {6} : Op("set_mode", set_mode(Begin(screen), {m}, TRUE))
       \/ \E m \in {7} : Op("reset_mode", reset_mode(Begin(screen), {m}, TRUE))

SaveNow ==
    /\ phase = "setup"
    /\ snap' = screen
    /\ screen' = save_cursor(Begin(screen))
    /\ phase' = "saved"
    /\ lastop' = "save_cursor"
    /\ steps' = 0
    /\ UNCHANGED <<shadow, driverVars>>

SavedOps ==
    /\ phase = "saved"
    /\ \/ CursorUp \/ CursorDown \/ CursorForward \/ CursorBack
       \/ CursorPosition \/ CursorToColumn \/ CursorToLine
       \/ CarriageReturn \/ Tab \/ SelectGraphicRendition

RestoreNow ==
    /\ phase = "saved"
    /\ shadow' = screen
    /\ screen' = restore_cursor(Begin(screen))
    /\ phase' = "restored"
    /\ lastop' = "restore_cursor"
    /\ UNCHANGED <<snap, steps, driverVars>>

NextSave == SaveSetup \/ SaveNow \/ SavedOps \/ RestoreNow

SpecSave == InitSetup /\ [][NextSave]_vars

(* C5: save_cursor, then cursor motions and select_graphic_rendition calls, *)
(* then restore_cursor, leave the cursor (x, y), charset, g0_charset,       *)
(* g1_charset, the DECOM and DECAWM flags and the attributes equal to what  *)
(* they were at save_cursor.                                                *)
C5_SaveRestoreRoundTrip ==
    phase = "restored" =>
        /\ screen.cursor = snap.cursor
        /\ screen.charset = snap.charset
        /\ screen.g0_charset = snap.g0_charset
        /\ screen.g1_charset = snap.g1_charset
        /\ (DECOM \in screen.mode) = (DECOM \in snap.mode)
        /\ (DECAWM \in screen.mode) = (DECAWM \in snap.mode)
        /\ screen.attrs = snap.attrs
        /\ screen.style_str = snap.style_str

---------------------------------------------------------------------------
(* SpecReflow: content is built and the cursor moved about in it, then the  *)
(* Screen is resized (snap is the Screen right before the resize).          *)

InitBuild ==
    /\ \E l \in Dims, c \in Dims : screen = NewScreen(l, c, 1)
    /\ shadow = None /\ snap = None /\ phase = "build" /\ lastop = "init" /\ steps = 0
    /\ DriverIdle

ReflowBuild ==
    /\ phase = "build"
    /\ \/ Draw \/ NextLine \/ Linefeed \/ CarriageReturn
       \/ \E n \in {1} : Op("cursor_up", cursor_up(Begin(screen), n))
       \/ \E n \in {1} : Op("cursor_back", cursor_back(Begin(screen), n))

ResizeNow ==
    /\ phase = "build"
    /\ \E l \in Dims, c \in Dims :
          /\ c # screen.columns
          /\ screen' = resize(Begin(screen), l, c)
    /\ snap' = screen
    /\ phase' = "resized"
    /\ lastop' = "resize"
    /\ UNCHANGED <<shadow, steps, driverVars>>

NextReflow == ReflowBuild \/ ResizeNow

SpecReflow == InitBuild /\ [][NextReflow]_vars

(* C6: for every reachable Screen and every new width, the reflow of a      *)
(* resize does not raise "Reflow failed" and leaves the cursor on the       *)
(* character it was on before the resize, on whichever row the cursor is.   *)
C6_ReflowKeepsCursor ==
    phase = "resized" =>
        /\ screen.raised = ""
        /\ CellAt(screen.data_buffer, screen.cursor.y, screen.cursor.x).char =
              CellAt(snap.data_buffer, snap.cursor.y, snap.cursor.x).char

---------------------------------------------------------------------------
(* SpecWrap: content drawn with draw and linefeed alone, then a resize to   *)
(* another width (snap is the Screen right before it) and a resize back     *)
(* (shadow is the Screen in between).                                       *)

WrapBuild ==
    /\ phase = "build"
    /\ \/ Draw \/ Linefeed

ResizeAway ==
    /\ phase = "build"
    /\ \E c \in 1..(MaxDim + 1) :
          /\ c # screen.columns
          /\ screen' = resize(Begin(screen), NoArg, c)
    /\ snap' = screen
    /\ phase' = "away"
    /\ lastop' = "resize"
    /\ UNCHANGED <<shadow, steps, driverVars>>

ResizeBack ==
    /\ phase = "away"
    /\ screen' = resize(Begin(screen), NoArg, snap.columns)
    /\ shadow' = screen
    /\ phase' = "back"
    /\ lastop' = "resize"
    /\ UNCHANGED <<snap, steps, driverVars>>

NextWrap == WrapBuild \/ ResizeAway \/ ResizeBack

SpecWrap == InitBuild /\ [][NextWrap]_vars

SeqSet(q) == {q[k] : k \in 1..Len(q)}

(* C7: for content produced by draw and linefeed alone at a width W, a      *)
(* resize to another width followed by a resize back to W leaves the set of *)
(* wrapped lines equal to what it was before the first resize.              *)
C7_WrappedLinesRoundTrip ==
    phase = "back" => SeqSet(screen.wrapped_lines) = SeqSet(snap.wrapped_lines)

---------------------------------------------------------------------------
(* SpecHist: the Screen around the eviction of old rows, which index runs   *)
(* on every CleanupInterval-th call outside margins. A run starts from the  *)
(* Screen that CleanupInterval - 3 linefeeds leave after construction.      *)

RECURSIVE linefeeds(_, _)
linefeeds(s, n) ==
    IF n = 0 \/ s.cursor.y < 0 THEN s ELSE linefeeds(linefeed(s), n - 1)

InitHist ==
    /\ \E l \in Dims, c \in Dims : screen = linefeeds(NewScreen(l, c, 1), CleanupInterval - 3)
    /\ shadow = None /\ snap = None /\ phase = "hist" /\ lastop = "init" /\ steps = 0
    /\ DriverIdle

HistOps ==
    /\ phase = "hist"
    /\ \/ Draw \/ Linefeed \/ CarriageReturn \/ CursorUp \/ CursorDown \/ SetMargins

NextHist == HistOps

SpecHist == InitHist /\ [][NextHist]_vars

\* No row of the buffer lies below cursor.y - H, H the history limit.
NoRowBelowHistory ==
    \A r \in DOMAIN screen.data_buffer : r >= screen.cursor.y - screen.history_limit

(* C8, as stated: after any sequence of output operations the data buffer  *)
(* holds no row whose index is below cursor.y - H.                          *)
C8_NoRowBelowHistory == NoRowBelowHistory

(* C8, amended: a step in which index runs the eviction (the counter of     *)
(* index goes from CleanupInterval - 1 back to 0) leaves no row of the      *)
(* data buffer below cursor.y - H; between two evictions older rows stay in *)
(* the buffer.                                                              *)
C8_NoRowBelowHistoryAfterEviction ==
    [][(/\ screen.history_cleanup_counter = CleanupInterval - 1
        /\ screen'.history_cleanup_counter = 0)
           => NoRowBelowHistory']_vars

\* C8's case: the eviction has just run and kept the oldest row it may keep.
C8_Witness ==
    /\ lastop = "linefeed"
    /\ screen.margins = None
    /\ screen.history_cleanup_counter = 0
    /\ screen.cursor.y >= CleanupInterval
    /\ screen.cursor.y - screen.history_limit \in DOMAIN screen.data_buffer

---------------------------------------------------------------------------
(* SpecMode: from one Screen, a mode set (or reset) twice in a row, in      *)
(* screen, and once, in shadow.                                             *)

PrivateModes == {3, 6, 7, 25, 1049}
AnsiModes == {IRM, LNM}

ModeSetup ==
    /\ InSetup
    /\ \/ Draw \/ Linefeed \/ CarriageReturn \/ CursorBack \/ SetMargins \/ SetMode \/ ResetMode

SetTwice ==
    /\ phase = "setup"
    /\ \E private \in BOOLEAN :
         \E m \in IF private THEN PrivateModes ELSE AnsiModes :
            /\ screen' = set_mode(Begin(set_mode(Begin(screen), {m}, private)), {m}, private)
            /\ shadow' = set_mode(Begin(screen), {m}, private)
    /\ phase' = "set"
    /\ lastop' = "set_mode"
    /\ UNCHANGED <<snap, steps, driverVars>>

ResetTwice ==
    /\ phase = "setup"
    /\ \E private \in BOOLEAN :
         \E m \in IF private THEN PrivateModes ELSE AnsiModes :
            /\ screen' = reset_mode(Begin(reset_mode(Begin(screen), {m}, private)), {m}, private)
            /\ shadow' = reset_mode(Begin(screen), {m}, private)
    /\ phase' = "reset"
    /\ lastop' = "reset_mode"
    /\ UNCHANGED <<snap, steps, driverVars>>

NextMode == ModeSetup \/ SetTwice \/ ResetTwice

SpecMode == InitSetup /\ [][NextMode]_vars

(* C9: set_mode applied twice with the same mode leaves the same complete   *)
(* Screen, the saved backup of the alternate screen included, as applied    *)
(* once, and so does reset_mode, for every mode the methods handle, 1049    *)
(* included.                                                                *)
C9_ModeIdempotent == phase \in {"set", "reset"} => screen = shadow

---------------------------------------------------------------------------
(* C11: while a chunk read without priority awaits its do_asap callback the *)
(* reader stays off the event loop, whatever suspend and resume do in       *)
(* between; hence at most one chunk awaits deferred processing at any time. *)
C11_ReaderOffWhilePending ==
    deferred # << >> => (~proc.reader_connected /\ Len(deferred) <= 1)

---------------------------------------------------------------------------
(* SpecSuspend: the driver runs as in SpecDriver, then suspend (or resume)  *)
(* is called twice in a row, in proc, and once, in shadow; or resume is     *)
(* called on a driver that is not suspended, shadow being the driver before *)
(* the call.                                                                *)

DriverSteps ==
    /\ phase = "driver"
    /\ NextDriver

SuspendTwice ==
    /\ phase = "driver"
    /\ shadow' = suspend(proc)
    /\ proc' = suspend(suspend(proc))
    /\ phase' = "suspend2"
    /\ UNCHANGED <<screen, snap, lastop, steps, deferred, fed, events>>

ResumeTwice ==
    /\ phase = "driver"
    /\ shadow' = resume(proc)
    /\ proc' = resume(resume(proc))
    /\ phase' = "resume2"
    /\ UNCHANGED <<screen, snap, lastop, steps, deferred, fed, events>>

ResumeAlone ==
    /\ phase = "driver"
    /\ ~proc.suspended
    /\ shadow' = proc
    /\ proc' = resume(proc)
    /\ phase' = "resume0"
    /\ UNCHANGED <<screen, snap, lastop, steps, deferred, fed, events>>

NextSuspend == DriverSteps \/ SuspendTwice \/ ResumeTwice \/ ResumeAlone

SpecSuspend == InitDriver /\ [][NextSuspend]_vars

(* C12: suspend called twice leaves the driver and the reader as suspend    *)
(* called once does, resume called twice as resume called once, resume on a *)
(* driver that is not suspended changes nothing, and the master fd is never *)
(* added to the event loop while it is registered there.                    *)
C12_SuspendResumeIdempotent ==
    /\ phase \in {"suspend2", "resume2", "resume0"} => proc = shadow
    /\ ~proc.readded
    /\ proc.loop_reader = proc.reader_connected

\* C12's case: resume called twice on a suspended driver with a chunk still
\* awaiting do_asap put the reader back on the loop, once.
C12_Witness ==
    /\ phase = "resume2"
    /\ deferred # << >>
    /\ proc.loop_reader /\ ~proc.suspended

---------------------------------------------------------------------------
(* SpecBackend: one backend (POSIX, Windows or asyncssh) under a driver     *)
(* that calls start, connect_reader and disconnect_reader in any order,     *)
(* while the child writes output. proc is the backend: the POSIX fields of  *)
(* IdleProc and, for the others, channel (asyncssh _channel is set), paused *)
(* (the channel's reading is paused), buffer (the texts in _receive_buffer  *)
(* or _buffer) and posted (callbacks handed to loop.call_from_executor).    *)
(* off records that disconnect_reader returned and connect_reader was not   *)
(* called since. events logs each delivery of the input-ready callback; the *)
(* callback is Process._read, which calls read_text.                        *)

BackendKinds == {"posix", "win32", "asyncssh"}

NewBackend(kind) ==
    [kind |-> kind, channel |-> FALSE, paused |-> FALSE, buffer |-> 0, posted |-> 0,
     off |-> FALSE] @@ IdleProc

win32_connect_reader(p) == p

win32_disconnect_reader(p) == p

asyncssh_connect_reader(p) ==
    IF p.channel THEN [p EXCEPT !.paused = FALSE] ELSE p

asyncssh_disconnect_reader(p) ==
    IF p.channel /\ p.reader_connected
    THEN [p EXCEPT !.paused = TRUE, !.reader_connected = FALSE]
    ELSE p

backend_connect_reader(p) ==
    CASE p.kind = "posix" -> connect_reader(p)
      [] p.kind = "win32" -> win32_connect_reader(p)
      [] p.kind = "asyncssh" -> asyncssh_connect_reader(p)

backend_disconnect_reader(p) ==
    CASE p.kind = "posix" -> disconnect_reader(p)
      [] p.kind = "win32" -> win32_disconnect_reader(p)
      [] p.kind = "asyncssh" -> asyncssh_disconnect_reader(p)

\* read_text: the POSIX reader takes one chunk from the pty, the others
\* join and empty their buffer.
backend_read_text(p) ==
    IF p.kind = "posix" THEN [p EXCEPT !.avail = p.avail - 1, !.nread = p.nread + 1]
    ELSE [p EXCEPT !.buffer = 0, !.nread = p.nread + 1]

\* The input-ready callback is delivered to the driver.
input_ready(ev, p) ==
    Append(ev, Event(IF p.off THEN "input_ready_disconnected" ELSE "input_ready", p.nread + 1))

InitBackend ==
    /\ screen = NewScreen(0, 0, 1)
    /\ shadow = None /\ snap = None /\ phase = "backend" /\ lastop = "init" /\ steps = 0
    /\ \E kind \in BackendKinds : proc = NewBackend(kind)
    /\ deferred = << >> /\ fed = << >> /\ events = << >>

BackendStart ==
    /\ ~proc.started
    /\ proc' = [proc EXCEPT !.started = TRUE, !.child = "running"]
    /\ UNCHANGED <<screenVars, deferred, fed, events>>

\* The task of AsyncSSHBackend.start has created the session.
ChannelCreated ==
    /\ proc.kind = "asyncssh" /\ proc.started /\ ~proc.channel
    /\ proc' = [proc EXCEPT !.channel = TRUE]
    /\ UNCHANGED <<screenVars, deferred, fed, events>>

ConnectReader ==
    /\ proc' = [backend_connect_reader(proc) EXCEPT !.off = FALSE]
    /\ UNCHANGED <<screenVars, deferred, fed, events>>

DisconnectReader ==
    /\ proc' = [backend_disconnect_reader(proc) EXCEPT !.off = TRUE]
    /\ UNCHANGED <<screenVars, deferred, fed, events>>

\* The event loop finds the registered master fd readable and calls ready().
PosixReady ==
    /\ proc.kind = "posix" /\ proc.loop_reader /\ proc.avail > 0
    /\ events' = input_ready(events, proc)
    /\ proc' = backend_read_text(proc)
    /\ UNCHANGED <<screenVars, deferred, fed>>

\* poll() of Win32Terminal, in its executor thread: ReadFile returns a text,
\* which is buffered, and the callback is handed to the loop.
Win32Poll ==
    /\ proc.kind = "win32" /\ proc.avail > 0
    /\ proc' = [proc EXCEPT !.avail = proc.avail - 1, !.buffer = proc.buffer + 1,
                            !.posted = proc.posted + 1]
    /\ UNCHANGED <<screenVars, deferred, fed, events>>

\* The loop runs a callback handed over by poll().
Win32Callback ==
    /\ proc.kind = "win32" /\ proc.posted > 0
    /\ events' = input_ready(events, proc)
    /\ proc' = backend_read_text([proc EXCEPT !.posted = proc.posted - 1])
    /\ UNCHANGED <<screenVars, deferred, fed>>

\* Session.data_received, called by asyncssh while reading is not paused:
\* the callbacks are called when the buffer was empty.
DataReceived ==
    /\ proc.kind = "asyncssh" /\ proc.channel /\ ~proc.paused /\ proc.avail > 0
    /\ LET send_signal == proc.buffer = 0
           p == [proc EXCEPT !.avail = proc.avail - 1, !.buffer = proc.buffer + 1]
       IN IF send_signal
          THEN /\ events' = input_ready(events, p)
               /\ proc' = backend_read_text(p)
          ELSE /\ proc' = p
               /\ UNCHANGED events
    /\ UNCHANGED <<screenVars, deferred, fed>>

NextBackend ==
    \/ BackendStart \/ ChannelCreated \/ ChildWrite \/ ConnectReader \/ DisconnectReader
    \/ PosixReady \/ Win32Poll \/ Win32Callback \/ DataReceived

SpecBackend == InitBackend /\ [][NextBackend]_vars

(* C13: in every backend, once disconnect_reader has returned no            *)
(* input-ready callback is delivered to the driver until connect_reader is  *)
(* called again.                                                            *)
C13_NoCallbackWhileDisconnected == EventsOf("input_ready_disconnected") = {}

---------------------------------------------------------------------------
(* C14, as stated: in every reachable Screen state max_y >= cursor.y.       *)
C14_MaxYAboveCursor == screen.max_y >= screen.cursor.y

(* C14, amended: max_y >= cursor.y holds right after the operations that    *)
(* raise max_y to the row of the cursor: draw, cursor_down, and linefeed    *)
(* without margins; absolute positioning (cursor_position, cursor_to_line)  *)
(* moves the cursor below max_y and leaves max_y alone.                     *)
C14_MaxYAfterWriting ==
    (\/ lastop \in {"draw", "cursor_down"}
     \/ (lastop = "linefeed" /\ screen.margins = None))
        => screen.max_y >= screen.cursor.y

\* C14's case: the cursor was put below every written row and draw then
\* wrote there, raising max_y to the row of the cursor.
C14_Witness ==
    /\ phase = "ops" /\ lastop = "draw"
    /\ screen.cursor.y > 0
    /\ screen.max_y = screen.cursor.y
    /\ DOMAIN screen.data_buffer = {screen.cursor.y}

---------------------------------------------------------------------------
(* SpecWide: single and double-width characters are drawn, the cursor is    *)
(* moved inside the row, and characters are inserted, deleted and erased.   *)

WideOps ==
    /\ phase = "build"
    /\ \/ Draw \/ CarriageReturn \/ CursorBack \/ CursorForward
       \/ InsertCharacters \/ DeleteCharacters \/ EraseCharacters

NextWide == WideOps

SpecWide == InitBuild /\ [][NextWide]_vars

\* The cell of row y at column x + 1 is the sentinel of a double-width cell.
HasSentinel(y, x) ==
    /\ Get(screen.data_buffer[y], x + 1).width = 0
    /\ Get(screen.data_buffer[y], x + 1).char = ""

(* C15: every double-width cell stored at column x of a row has the         *)
(* zero-width empty sentinel at column x + 1 of that row, also after later  *)
(* draws and after insert, delete and erase of characters.                  *)
C15_WideCellHasSentinel ==
    \A y \in DOMAIN screen.data_buffer :
        \A x \in DOMAIN screen.data_buffer[y] :
            screen.data_buffer[y][x].width = 2 => HasSentinel(y, x)

\* draw stored the cell at column x of row y in this step, or changed it.
PlacedInStep(y, x) ==
    \/ y \notin DOMAIN screen.data_buffer
    \/ x \notin DOMAIN screen.data_buffer[y]
    \/ screen.data_buffer[y][x] # screen'.data_buffer[y][x]

(* C16: no cell that draw places, the sentinel of a double-width character  *)
(* included, is stored at a column index >= columns.                        *)
C16_DrawnCellsInsideColumns ==
    [][lastop' = "draw" =>
          \A y \in DOMAIN screen'.data_buffer :
              \A x \in DOMAIN screen'.data_buffer[y] :
                  PlacedInStep(y, x) => x < screen'.columns]_vars

---------------------------------------------------------------------------
(* SpecAltHist: the alternate screen, entered after CleanupInterval - 3     *)
(* linefeeds on the primary screen; the counter of index is not among the   *)
(* swapped variables and goes on counting in the alternate screen.          *)

InitAltHist ==
    /\ \E l \in Dims, c \in Dims :
          screen = set_mode(linefeeds(NewScreen(l, c, 1), CleanupInterval - 3), {1049}, TRUE)
    /\ shadow = None /\ snap = None /\ phase = "hist" /\ lastop = "set_mode" /\ steps = 0
    /\ DriverIdle

SpecAltHist == InitAltHist /\ [][NextHist]_vars

(* C17: in the alternate screen no linefeed (index outside margins), alone  *)
(* or inside a wrapping draw, removes a row from the data buffer.           *)
C17_NoEvictionInAlternateScreen ==
    [][(/\ in_alternate_screen(screen)
        /\ screen.margins = None
        /\ lastop' \in {"linefeed", "draw"})
           => DOMAIN screen.data_buffer \subseteq DOMAIN screen'.data_buffer]_vars

---------------------------------------------------------------------------
(* SpecSgr: select_graphic_rendition called with parameter lists of up to   *)
(* MaxSgrLen codes: reset, bold, a colour, the extended-colour codes 38 and *)
(* 48 with their sub-parameters 5 and 2, and the unknown code 99.           *)

MaxSgrLen == 3

SgrCodes == {0, 1, 2, 5, 31, 38, 48, 99}

SgrLists == UNION {[1..n -> SgrCodes] : n \in 0..MaxSgrLen}

SelectGraphicRenditionAny ==
    \E a \in SgrLists : Op("select_graphic_rendition", select_graphic_rendition(Begin(screen), a))

NextSgr == SelectGraphicRenditionAny

SpecSgr == Init /\ [][NextSgr]_vars

(* C18: select_graphic_rendition completes without raising for every list  *)
(* of integer parameters, a 38 or 48 without its sub-parameters included.   *)
C18_SgrNeverRaises ==
    lastop = "select_graphic_rendition" => screen.raised = ""

---------------------------------------------------------------------------
(* SpecPipe: PipeReader of the Windows backend. The texts that arrive from  *)
(* the pipe are numbered 1, 2, ... in arrival order. proc holds _stop and   *)
(* _pending, an io.StringIO given as its content buf (a sequence of text    *)
(* numbers) and its stream position pos; fed is the sequence of texts       *)
(* handed to read_callback.                                                 *)

\* Calls of start_reading in a run.
MaxStarts == 3

\* io.StringIO: write puts the text at the stream position and moves it,
\* getvalue returns the whole content, read moves the position to the end.
sio_write(b, text) ==
    [buf |-> SubSeq(b.buf, 1, b.pos) \o text \o SubSeq(b.buf, b.pos + Len(text) + 1, Len(b.buf)),
     pos |-> b.pos + Len(text)]

sio_getvalue(b) == b.buf

sio_read(b) == [b EXCEPT !.pos = Len(b.buf)]

NewPipeReader ==
    [stop |-> TRUE, pending |-> [buf |-> << >>, pos |-> 0], arrived |-> 0, starts |-> 0]

InitPipe ==
    /\ screen = NewScreen(0, 0, 1)
    /\ shadow = None /\ snap = None /\ phase = "pipe" /\ lastop = "init" /\ steps = 0
    /\ proc = NewPipeReader
    /\ deferred = << >> /\ fed = << >> /\ events = << >>

\* on_read(value): the text is buffered while reading is stopped, else
\* handed to read_callback.
OnRead ==
    /\ proc.arrived < MaxChunks
    /\ LET text == <<proc.arrived + 1>>
           p == [proc EXCEPT !.arrived = proc.arrived + 1]
       IN IF p.stop
          THEN /\ proc' = [p EXCEPT !.pending = sio_write(p.pending, text)]
               /\ UNCHANGED fed
          ELSE /\ proc' = p
               /\ fed' = fed \o text
    /\ UNCHANGED <<screenVars, deferred, events>>

\* start_reading: a stopped reader hands the content of _pending to
\* read_callback and calls _pending.read() ("clear"); _stop is reset.
StartReading ==
    /\ proc.starts < MaxStarts
    /\ LET text == sio_getvalue(proc.pending)
           p == [proc EXCEPT !.starts = proc.starts + 1, !.stop = FALSE]
       IN IF proc.stop /\ text # << >>
          THEN /\ fed' = fed \o text
               /\ proc' = [p EXCEPT !.pending = sio_read(proc.pending)]
          ELSE /\ proc' = p
               /\ UNCHANGED fed
    /\ UNCHANGED <<screenVars, deferred, events>>

StopReading ==
    /\ proc' = [proc EXCEPT !.stop = TRUE]
    /\ UNCHANGED <<screenVars, deferred, fed, events>>

NextPipe == OnRead \/ StartReading \/ StopReading

SpecPipe == InitPipe /\ [][NextPipe]_vars

(* C19: the texts handed to read_callback are the texts received from the   *)
(* pipe, each once and in arrival order, under every interleaving of        *)
(* on_read, stop_reading and start_reading.                                 *)
C19_DeliveredOnceInOrder == fed = [i \in 1..Len(fed) |-> i]

---------------------------------------------------------------------------
(* SpecInput: modes are set and reset on the Screen, with and without the   *)
(* private flag, and write_input is called. events logs every call of       *)
(* write_input, with the mode set of the Screen at that moment, and every   *)
(* backend write_text call it makes, with its payload.                      *)

\* Calls of write_input in a run.
MaxWrites == 2

InputTexts == {"", "x", "ls"}

InputModes == {2004}

bracketed_paste_enabled(s) == Private(2004) \in s.mode

\* A variant of write_input that wraps every pasted text.
write_input_paste_always(s, data, paste) ==
    <<IF paste THEN "ESC[200~" \o data \o "ESC[201~" ELSE data>>

\* Process.write_input: the payloads of the write_text calls it makes
\* ("ESC" stands for the escape character).
write_input(s, data, paste) ==
    <<IF paste /\ bracketed_paste_enabled(s) THEN "ESC[200~" \o data \o "ESC[201~" ELSE data>>

\* The log entries of the write_text calls with the payloads given.
write_text_events(payloads) ==
    [i \in 1..Len(payloads) |-> Event("write_text", payloads[i])]

InitInput ==
    /\ \E l \in Dims, c \in Dims : screen = NewScreen(l, c, 1)
    /\ shadow = None /\ snap = None /\ phase = "input" /\ lastop = "init" /\ steps = 0
    /\ DriverIdle

InputSetMode ==
    /\ \E m \in InputModes, private \in BOOLEAN :
          screen' = set_mode(Begin(screen), {m}, private)
    /\ lastop' = "set_mode"
    /\ UNCHANGED <<shadow, snap, phase, steps, driverVars>>

InputResetMode ==
    /\ \E m \in InputModes, private \in BOOLEAN :
          screen' = reset_mode(Begin(screen), {m}, private)
    /\ lastop' = "reset_mode"
    /\ UNCHANGED <<shadow, snap, phase, steps, driverVars>>

WriteInput ==
    /\ Cardinality(EventsOf("write_input")) < MaxWrites
    /\ \E data \in InputTexts, paste \in BOOLEAN :
          events' = Append(events, Event("write_input",
                                         [data |-> data, paste |-> paste, mode |-> screen.mode]))
                    \o write_text_events(write_input(screen, data, paste))
    /\ lastop' = "write_input"
    /\ UNCHANGED <<screen, shadow, snap, phase, steps, proc, deferred, fed>>

NextInput == InputSetMode \/ InputResetMode \/ WriteInput

SpecInput == InitInput /\ [][NextInput]_vars

\* The payload C20 states for a call of write_input.
PastePayload(call) ==
    IF call.paste /\ (2004 * 32) \in call.mode
    THEN "ESC[200~" \o call.data \o "ESC[201~"
    ELSE call.data

(* C20: every call of write_input is followed by exactly one write_text     *)
(* call, whose payload is the text between ESC[200~ and ESC[201~ when paste *)
(* is true and private mode 2004 is in the mode set of the Screen, and the  *)
(* text unchanged in every other case.                                      *)
C20_WriteInputPayload ==
    /\ Len(events) = 2 * Cardinality(EventsOf("write_input"))
    /\ \A i \in EventsOf("write_input") :
          /\ i < Len(events)
          /\ events[i + 1] = Event("write_text", PastePayload(events[i].id))

\* C20's case: one pasted text went out between the markers, and one was
\* pasted unchanged while only the non-private mode 2004 was set.
C20_Witness ==
    /\ \E i \in EventsOf("write_input") :
          events[i].id.paste /\ events[i].id.data = "ls"
          /\ events[i + 1].id = "ESC[200~lsESC[201~"
    /\ \E i \in EventsOf("write_input") :
          events[i].id.paste /\ 2004 \in events[i].id.mode
          /\ events[i + 1].id = events[i].id.data

---------------------------------------------------------------------------
(* SpecMouse: _TerminalControl.mouse_handler. The Screen has scrolled by 0  *)
(* to MaxDim lines; the mouse modes are set and reset, the focus moves, and *)
(* mouse events arrive at positions given in absolute rows of the content.  *)
(* proc is [focus]; events logs every mouse event, with the mode set, the   *)
(* line offset and the focus at that moment, and every write_text call.     *)

\* Mouse events in a run.
MaxMouse == 1

MouseModes == {1000, 1006, 1015}

MouseEventTypes == {"MOUSE_DOWN", "MOUSE_UP", "SCROLL_UP", "SCROLL_DOWN", "MOUSE_MOVE"}

\* Columns and viewport rows of the events: the position of the example and
\* both sides of the X10 limit.
MouseColumns == {4, 95, 96}

MouseRows == {2, 95, 96}

\* "%s" % n for an integer n.
RECURSIVE ToDec(_)
ToDec(n) ==
    IF n < 0 THEN "-" \o ToDec(0 - n)
    ELSE IF n < 10 THEN HexDigits[n + 1]
    ELSE ToDec(n \div 10) \o HexDigits[(n % 10) + 1]

\* chr(n): the printable ASCII characters by their code; the grave accent
\* (96) and the code points outside 32..126 are written chr(n).
AsciiPrintable ==
    <<" ", "!", "\"", "#", "$", "%", "&", "'", "(", ")", "*", "+", ",", "-", ".", "/",
      "0", "1", "2", "3", "4", "5", "6", "7", "8", "9", ":", ";", "<", "=", ">", "?",
      "@", "A", "B", "C", "D", "E", "F", "G", "H", "I", "J", "K", "L", "M", "N", "O",
      "P", "Q", "R", "S", "T", "U", "V", "W", "X", "Y", "Z", "[", "\\", "]", "^", "_",
      "chr(96)", "a", "b", "c", "d", "e", "f", "g", "h", "i", "j", "k", "l", "m", "n", "o",
      "p", "q", "r", "s", "t", "u", "v", "w", "x", "y", "z", "{", "|", "}", "~">>

Chr(n) ==
    IF n >= 32 /\ n <= 126 THEN AsciiPrintable[n - 31] ELSE "chr(" \o ToDec(n) \o ")"

mouse_support_enabled(s) == Private(1000) \in s.mode

urxvt_mouse_support_enabled(s) == Private(1015) \in s.mode

sgr_mouse_support_enabled(s) == Private(1006) \in s.mode

\* The (ev, m) table of the SGR branch and the ev table of the others; a
\* type that is not in the table (KeyError) gives None.
sgr_event(type) ==
    CASE type = "MOUSE_DOWN" -> Some([ev |-> 0, m |-> "M"])
      [] type = "MOUSE_UP" -> Some([ev |-> 0, m |-> "m"])
      [] type = "SCROLL_UP" -> Some([ev |-> 64, m |-> "M"])
      [] type = "SCROLL_DOWN" -> Some([ev |-> 65, m |-> "M"])
      [] OTHER -> None

x10_event(type) ==
    CASE type = "MOUSE_DOWN" -> Some(32)
      [] type = "MOUSE_UP" -> Some(35)
      [] type = "SCROLL_UP" -> Some(96)
      [] type = "SCROLL_DOWN" -> Some(97)
      [] OTHER -> None

\* The texts mouse_handler passes to write_input for an event at column x
\* and viewport row y, by the branch taken.
sgr_report(type, x, y) ==
    IF sgr_event(type) = None THEN << >>
    ELSE <<"ESC[<" \o ToDec(sgr_event(type)[1].ev) \o ";" \o ToDec(x + 1) \o ";" \o ToDec(y + 1)
           \o sgr_event(type)[1].m>>

urxvt_report(type, x, y) ==
    IF x10_event(type) = None THEN << >>
    ELSE <<"ESC[" \o ToDec(x10_event(type)[1]) \o ";" \o ToDec(x + 1) \o ";" \o ToDec(y + 1) \o "M">>

x10_report(type, x, y) ==
    IF x < 96 /\ y < 96 /\ x10_event(type) # None
    THEN <<"ESC[M" \o Chr(x10_event(type)[1]) \o Chr(x + 33) \o Chr(y + 33)>>
    ELSE << >>

\* A variant of mouse_report that keeps the absolute row of the event.
mouse_report_absolute_row(s, type, x, abs_y) ==
    IF sgr_mouse_support_enabled(s) THEN sgr_report(type, x, abs_y)
    ELSE IF urxvt_mouse_support_enabled(s) THEN urxvt_report(type, x, abs_y)
    ELSE IF mouse_support_enabled(s) THEN x10_report(type, x, abs_y)
    ELSE << >>

\* The focused branch of mouse_handler: y -= line_offset, then the report of
\* the first enabled mode.
mouse_report(s, type, x, abs_y) ==
    IF sgr_mouse_support_enabled(s) THEN sgr_report(type, x, abs_y - line_offset(s))
    ELSE IF urxvt_mouse_support_enabled(s) THEN urxvt_report(type, x, abs_y - line_offset(s))
    ELSE IF mouse_support_enabled(s) THEN x10_report(type, x, abs_y - line_offset(s))
    ELSE << >>

\* mouse_handler: without the focus a MOUSE_UP takes it and nothing is
\* written; with it every report goes through write_input. The result is the
\* focus and the payloads of the write_text calls.
RECURSIVE write_inputs(_, _, _)
write_inputs(s, texts, i) ==
    IF i > Len(texts) THEN << >>
    ELSE write_input(s, texts[i], FALSE) \o write_inputs(s, texts, i + 1)

mouse_handler(s, focus, type, x, abs_y) ==
    IF ~focus
    THEN [focus |-> type = "MOUSE_UP", written |-> << >>]
    ELSE [focus |-> TRUE, written |-> write_inputs(s, mouse_report(s, type, x, abs_y), 1)]

InitMouse ==
    /\ \E l \in Dims, c \in Dims, n \in 0..MaxDim : screen = linefeeds(NewScreen(l, c, 1), n)
    /\ shadow = None /\ snap = None /\ phase = "mouse" /\ lastop = "init" /\ steps = 0
    /\ proc = [focus |-> FALSE]
    /\ deferred = << >> /\ fed = << >> /\ events = << >>

MouseSetMode ==
    /\ \E m \in MouseModes : screen' = set_mode(Begin(screen), {m}, TRUE)
    /\ lastop' = "set_mode"
    /\ UNCHANGED <<shadow, snap, phase, steps, driverVars>>

MouseResetMode ==
    /\ \E m \in MouseModes : screen' = reset_mode(Begin(screen), {m}, TRUE)
    /\ lastop' = "reset_mode"
    /\ UNCHANGED <<shadow, snap, phase, steps, driverVars>>

\* The application moves the focus to this control or away from it.
FocusChanged ==
    /\ proc' = [proc EXCEPT !.focus = ~proc.focus]
    /\ UNCHANGED <<screenVars, deferred, fed, events>>

MouseEvent ==
    /\ Cardinality(EventsOf("mouse")) < MaxMouse
    /\ \E type \in MouseEventTypes, x \in MouseColumns, y \in MouseRows :
          LET abs_y == y + line_offset(screen)
              r == mouse_handler(screen, proc.focus, type, x, abs_y)
          IN /\ proc' = [proc EXCEPT !.focus = r.focus]
             /\ events' = Append(events,
                                 Event("mouse", [type |-> type, x |-> x, y |-> y, focus |-> proc.focus,
                                                 mode |-> screen.mode]))
                          \o write_text_events(r.written)
    /\ lastop' = "mouse_handler"
    /\ UNCHANGED <<screen, shadow, snap, phase, steps, deferred, fed>>

NextMouse == MouseSetMode \/ MouseResetMode \/ FocusChanged \/ MouseEvent

SpecMouse == InitMouse /\ [][NextMouse]_vars

\* The report C21 states for a logged mouse event: none without the focus,
\* else SGR before urxvt before X10, by the modes set; y is the viewport row.
MouseExpected(call) ==
    IF ~call.focus THEN << >>
    ELSE IF (1006 * 32) \in call.mode THEN sgr_report(call.type, call.x, call.y)
    ELSE IF (1015 * 32) \in call.mode THEN urxvt_report(call.type, call.x, call.y)
    ELSE IF (1000 * 32) \in call.mode THEN x10_report(call.type, call.x, call.y)
    ELSE << >>

\* The log entry after entry i is no write_text call.
NoWriteAfter(i) == i = Len(events) \/ events[i + 1].op # "write_text"

(* C21: a mouse event writes at most one report to the child, and only with *)
(* the focus and a mouse mode set; the encoding is SGR (1006) before urxvt  *)
(* (1015) before X10 (1000), with column x + 1 and row y + 1, y counted in  *)
(* the viewport; the X10 report is written only for x < 96 and y < 96; with *)
(* 1006 and the focus, MOUSE_DOWN at (4, 2) writes ESC[<0;5;3M.             *)
C21_MouseReport ==
    \A i \in EventsOf("mouse") :
        LET call == events[i].id
            expected == MouseExpected(call)
        IN /\ expected = << >> => NoWriteAfter(i)
           /\ expected # << >> =>
                 /\ i < Len(events)
                 /\ events[i + 1] = Event("write_text", expected[1])
                 /\ NoWriteAfter(i + 1)
           /\ ~NoWriteAfter(i) =>
                 /\ call.focus
                 /\ call.mode \cap {1000 * 32, 1006 * 32, 1015 * 32} # {}
                 /\ call.mode \cap {1006 * 32, 1015 * 32} = {} => (call.x < 96 /\ call.y < 96)
           /\ (call.focus /\ (1006 * 32) \in call.mode /\ call.type = "MOUSE_DOWN"
               /\ call.x = 4 /\ call.y = 2)
                 => (i < Len(events) /\ events[i + 1] = Event("write_text", "ESC[<0;5;3M"))

\* C21's case: on a scrolled Screen with the three mouse modes set and the
\* focus, MOUSE_DOWN at column 4 of viewport row 2 wrote the SGR report.
C21_Witness ==
    /\ line_offset(screen) > 0
    /\ \E i \in EventsOf("mouse") :
          /\ events[i].id.type = "MOUSE_DOWN" /\ events[i].id.x = 4 /\ events[i].id.y = 2
          /\ {1000 * 32, 1006 * 32, 1015 * 32} \subseteq events[i].id.mode
          /\ i < Len(events) /\ events[i + 1].id = "ESC[<0;5;3M"

---------------------------------------------------------------------------
(* SpecReap: the driver of SpecDriver with the calls that act on the child  *)
(* (set_size, kill, send_signal of the POSIX backend) and the done callback *)
(* of ready_f. events also logs every ioctl on the master fd and every      *)
(* os.kill, with 1 when closed was true at that moment and 0 otherwise.     *)

\* ioctl and os.kill calls in a run.
MaxCalls == 1

ClosedFlag(p) == IF p.closed THEN 1 ELSE 0

SysCalls == EventsOf("ioctl") \cup EventsOf("os_kill")

\* PosixBackend.set_size: set_terminal_size (an ioctl) while master is set.
set_size(p, ev) ==
    IF p.master_open THEN Append(ev, Event("ioctl", ClosedFlag(p))) ELSE ev

\* PosixBackend.send_signal: os.kill when there is a pid and not closed.
send_signal(p, ev) ==
    IF p.started /\ ~p.closed THEN Append(ev, Event("os_kill", ClosedFlag(p))) ELSE ev

SetSize ==
    /\ Cardinality(SysCalls) < MaxCalls
    /\ events' = set_size(proc, events)
    /\ UNCHANGED <<screenVars, proc, deferred, fed>>

SendSignal ==
    /\ Cardinality(SysCalls) < MaxCalls
    /\ events' = send_signal(proc, events)
    /\ UNCHANGED <<screenVars, proc, deferred, fed>>

\* kill(): send_signal(SIGKILL); a running child that gets it exits.
Kill ==
    /\ Cardinality(SysCalls) < MaxCalls
    /\ events' = send_signal(proc, events)
    /\ proc' = IF events' # events /\ proc.child = "running"
               THEN [proc EXCEPT !.child = "exited"]
               ELSE proc
    /\ UNCHANGED <<screenVars, deferred, fed>>

\* The callback Process.__init__ added to ready_f, run by the loop once the
\* future has its result.
DoneCallback ==
    /\ proc.done_callbacks < proc.set_results
    /\ proc' = [proc EXCEPT !.done_callbacks = proc.done_callbacks + 1]
    /\ UNCHANGED <<screenVars, deferred, fed, events>>

NextReap == DriverSteps \/ SetSize \/ SendSignal \/ Kill \/ DoneCallback

SpecReap == InitDriver /\ [][NextReap]_vars

(* C22: whenever closed is true, before and after the child has been        *)
(* reaped, set_size, kill and send_signal have no effect: no ioctl is       *)
(* issued on the master fd and no signal is sent.                           *)
C22_NoSysCallWhenClosed ==
    \A i \in SysCalls : events[i].id = 0

(* C23: ready_f is completed at most once, and only after the child has     *)
(* been waited for, the reader has been taken off the loop and the master   *)
(* fd has been closed; the done callback runs only after that completion.   *)
C23_ReadyAfterReclaim ==
    /\ proc.set_results <= 1
    /\ proc.ready_f_done = (proc.set_results = 1)
    /\ proc.ready_f_done =>
          /\ proc.child = "exited"
          /\ ~proc.reader_connected /\ ~proc.loop_reader
          /\ ~proc.master_open
    /\ proc.done_callbacks <= proc.set_results

\* C23's case: the child exited while the reader was on the loop with a
\* chunk unread; done() has run and the done callback after it.
C23_Witness ==
    /\ proc.ready_f_done /\ proc.done_callbacks = 1
    /\ proc.avail > 0 /\ ~proc.closed /\ ~proc.suspended

---------------------------------------------------------------------------
(* SpecAltVars: the round trip of SpecAlt with the operations that change   *)
(* the swapped variables (margins, modes, charsets, tab stops) before the   *)
(* alternate screen is entered and inside it.                               *)

SetTabStop == Op("set_tab_stop", set_tab_stop(Begin(screen)))
ShiftOut == Op("shift_out", shift_out(Begin(screen)))
ShiftIn == Op("shift_in", shift_in(Begin(screen)))

\* Mode changes other than DECCOLM (which resizes) and 1049 itself.
PlainSetMode ==
    \/ \E m \in {6, 7, 25} : Op("set_mode", set_mode(Begin(screen), {m}, TRUE))
    \/ \E m \in {IRM, LNM} : Op("set_mode", set_mode(Begin(screen), {m}, FALSE))
PlainResetMode ==
    \/ \E m \in {6, 7, 25} : Op("reset_mode", reset_mode(Begin(screen), {m}, TRUE))
    \/ \E m \in {IRM, LNM} : Op("reset_mode", reset_mode(Begin(screen), {m}, FALSE))

VarsSetup ==
    /\ InSetup
    /\ \/ Draw \/ Linefeed \/ SetMargins \/ SetTabStop \/ ShiftOut
       \/ PlainSetMode \/ PlainResetMode

VarsAltOps ==
    /\ phase = "alt"
    /\ \/ Draw \/ Linefeed \/ CursorForward \/ SetMargins \/ SetTabStop
       \/ ShiftOut \/ ShiftIn \/ PlainSetMode \/ PlainResetMode

NextAltVars == VarsSetup \/ EnterAlt \/ VarsAltOps \/ LeaveAlt

SpecAltVars == InitSetup /\ [][NextAltVars]_vars

(* C24: after set_mode(1049), any operations in the alternate screen (mode  *)
(* set/reset, set_tab_stop and set_margins among them) and reset_mode(1049),*)
(* the margins, the mode set apart from the 1049 flag, the charsets g0/g1   *)
(* and the active index, the tab stops and max_y equal their values just    *)
(* before entry.                                                            *)
C24_AltScreenRestoresVars ==
    phase = "back" =>
        /\ screen.margins = snap.margins
        /\ screen.mode \ {ALTSCREEN} = snap.mode \ {ALTSCREEN}
        /\ screen.g0_charset = snap.g0_charset
        /\ screen.g1_charset = snap.g1_charset
        /\ screen.charset = snap.charset
        /\ screen.tabstops = snap.tabstops
        /\ screen.max_y = snap.max_y

---------------------------------------------------------------------------
(* SpecWinRead: Process._read over the Win32 backend. poll() runs in an     *)
(* executor thread: it buffers each text ReadFile returns and hands the     *)
(* callback to the loop, and sets ready_f when ReadFile raises; closed is   *)
(* ready_f.done(). text is _buffer, as the numbers of the chunks in it;     *)
(* fed holds the numbers of the chunks fed to the stream.                   *)

NewWin32 == [text |-> << >>] @@ NewBackend("win32")

\* Win32Terminal.read_text: the buffered texts joined, and the buffer emptied.
win32_read_text(p) == [d |-> p.text, p |-> [p EXCEPT !.text = << >>]]

\* Win32Terminal.closed.
win32_closed(p) == p.ready_f_done

\* The chunks read_text has returned to _read so far.
ReturnedChunks ==
    UNION {SeqSet(events[i].id) : i \in EventsOf("read") \cup EventsOf("read_eof")}

\* The chunks do_asap still has to process.
PendingChunks == UNION {SeqSet(deferred[i].id) : i \in DOMAIN deferred}

InitWinRead ==
    /\ screen = NewScreen(0, 0, 1)
    /\ shadow = None /\ snap = None /\ phase = "winread" /\ lastop = "init" /\ steps = 0
    /\ proc = NewWin32
    /\ deferred = << >> /\ fed = << >> /\ events = << >>

\* poll(): ReadFile returned a text.
WinPollRead ==
    /\ ~proc.ready_f_done
    /\ proc.written < MaxChunks
    /\ proc' = [proc EXCEPT !.written = proc.written + 1,
                            !.text = Append(proc.text, proc.written + 1),
                            !.posted = proc.posted + 1]
    /\ UNCHANGED <<screenVars, deferred, fed, events>>

\* poll(): ReadFile raised, the pipe has ended.
WinPollEnd ==
    /\ ~proc.ready_f_done
    /\ proc' = [proc EXCEPT !.ready_f_done = TRUE, !.set_results = proc.set_results + 1]
    /\ UNCHANGED <<screenVars, deferred, fed, events>>

\* _read, run by the loop for one posted callback.
WinRead ==
    /\ proc.posted > 0
    /\ LET r == win32_read_text([proc EXCEPT !.posted = proc.posted - 1])
           c == [id |-> r.d, raises |-> FALSE]
       IN IF ~win32_closed(r.p)
          THEN IF r.p.has_priority
               THEN /\ proc' = r.p
                    /\ events' = process(Append(events, Event("read", r.d)), c)
                    /\ fed' = fed \o r.d
                    /\ UNCHANGED deferred
               ELSE /\ proc' = win32_disconnect_reader(r.p)
                    /\ events' = Append(events, Event("read", r.d))
                    /\ deferred' = Append(deferred, c)
                    /\ UNCHANGED fed
          ELSE /\ proc' = win32_disconnect_reader(r.p)
               /\ events' = Append(events, Event("read_eof", r.d))
               /\ UNCHANGED <<deferred, fed>>
    /\ UNCHANGED screenVars

\* do_asap of a postponed chunk.
WinDoAsap ==
    /\ deferred # << >>
    /\ events' = process(events, Head(deferred))
    /\ fed' = fed \o Head(deferred).id
    /\ proc' = IF ~proc.suspended THEN win32_connect_reader(proc) ELSE proc
    /\ deferred' = Tail(deferred)
    /\ UNCHANGED screenVars

NextWinRead == WinPollRead \/ WinPollEnd \/ WinRead \/ WinDoAsap \/ SetPriority

SpecWinRead == InitWinRead /\ [][NextWinRead]_vars

(* C25: every chunk read_text has returned to _read, the one returned in   *)
(* the call that found the backend closed included, is fed to the parser or *)
(* waits in a posted do_asap: no output of the child is dropped.            *)
C25_NoChunkDropped ==
    ReturnedChunks \subseteq SeqSet(fed) \cup PendingChunks

---------------------------------------------------------------------------
(* SpecFeed: a fresh screen of 80 columns and 24 lines is fed words,        *)
(* carriage returns and linefeeds, as the stream does for printable text,   *)
(* "\r" and "\n". events logs the operations.                               *)

\* Operations fed in a run.
MaxFeed == 5

Hello == <<"H", "e", "l", "l", "o">>
World == <<"W", "o", "r", "l", "d">>

FeedWords == {Hello, World}

\* The characters of row y from column 0 on, when the row holds the text in
\* its first cells and blanks elsewhere.
RowIs(s, y, text) ==
    LET row == Row(s.data_buffer, y)
    IN /\ \A k \in 1..Len(text) : Get(row, k - 1).char = text[k]
       /\ \A k \in DOMAIN row : k >= Len(text) => row[k].char = " "

InitFeed ==
    /\ screen = NewScreen(24, 80, 2000)
    /\ shadow = None /\ snap = None /\ phase = "feed" /\ lastop = "init" /\ steps = 0
    /\ DriverIdle

Fed(name, arg, s) ==
    /\ steps < MaxFeed
    /\ screen' = s
    /\ lastop' = name
    /\ steps' = steps + 1
    /\ events' = Append(events, Event(name, arg))
    /\ UNCHANGED <<shadow, snap, phase, proc, deferred, fed>>

FeedDraw == \E w \in FeedWords : Fed("draw", w, draw(Begin(screen), w))
FeedCarriageReturn == Fed("carriage_return", << >>, carriage_return(Begin(screen)))
FeedLinefeed == Fed("linefeed", << >>, linefeed(Begin(screen)))

NextFeed == FeedDraw \/ FeedCarriageReturn \/ FeedLinefeed

SpecFeed == InitFeed /\ [][NextFeed]_vars

\* draw Hello, carriage_return, linefeed, draw World, linefeed.
HelloWorldFed ==
    events = <<Event("draw", Hello), Event("carriage_return", << >>),
               Event("linefeed", << >>), Event("draw", World), Event("linefeed", << >>)>>

(* C26 as stated: after draw Hello, carriage_return, linefeed, draw World,  *)
(* linefeed on a fresh 80x24 screen, row 0 is Hello, row 1 is World, the    *)
(* cursor is at (x=0, y=2) and max_y is 2.                                  *)
C26_HelloWorldCursorAtColumn0 ==
    HelloWorldFed =>
        /\ RowIs(screen, 0, Hello) /\ RowIs(screen, 1, World)
        /\ screen.cursor = [x |-> 0, y |-> 2]
        /\ screen.max_y = 2

(* C26, amended: after that sequence row 0 is Hello, row 1 is World, max_y  *)
(* is 2 and the cursor is at (x=5, y=2): LNM is not set on a fresh screen,  *)
(* so the last linefeed leaves the column where draw World ended.           *)
C26_HelloWorld ==
    HelloWorldFed =>
        /\ RowIs(screen, 0, Hello) /\ RowIs(screen, 1, World)
        /\ screen.cursor = [x |-> 5, y |-> 2]
        /\ screen.max_y = 2
        /\ screen.raised = ""

\* C26's case: the five operations have been fed.
C26_Witness == HelloWorldFed /\ DOMAIN screen.data_buffer = {0, 1}

---------------------------------------------------------------------------
(* SpecFill: a screen of 10 columns and 5 lines is filled with runs of "A"  *)
(* and resized to other widths. events logs the operations.                 *)

\* Operations in a run.
MaxFill == 3

FillLengths == {5, 10, 25}
FillColumns == {5, 10, 25}

\* n times "A".
As(n) == [k \in 1..n |-> "A"]

InitFill ==
    /\ screen = NewScreen(5, 10, 2000)
    /\ shadow = None /\ snap = None /\ phase = "fill" /\ lastop = "init" /\ steps = 0
    /\ DriverIdle

Filled(name, arg, s) ==
    /\ steps < MaxFill
    /\ screen' = s
    /\ lastop' = name
    /\ steps' = steps + 1
    /\ events' = Append(events, Event(name, arg))
    /\ UNCHANGED <<shadow, snap, phase, proc, deferred, fed>>

FillDraw == \E n \in FillLengths : Filled("draw", n, draw(Begin(screen), As(n)))
FillResize == \E c \in FillColumns : Filled("resize", c, resize(Begin(screen), 5, c))

NextFill == FillDraw \/ FillResize

SpecFill == InitFill /\ [][NextFill]_vars

(* C27: on a screen of 10 columns and 5 lines, drawing 25 "A" fills rows 0  *)
(* to 2 with rows 1 and 2 in wrapped_lines; a following resize(lines=5,     *)
(* columns=25) yields row 0 = 25 "A" and an empty wrapped_lines.            *)
C27_FillThenWiden ==
    /\ events = <<Event("draw", 25)>> =>
          /\ RowIs(screen, 0, As(10)) /\ RowIs(screen, 1, As(10)) /\ RowIs(screen, 2, As(5))
          /\ screen.wrapped_lines = <<1, 2>>
    /\ events = <<Event("draw", 25), Event("resize", 25)>> =>
          /\ RowIs(screen, 0, As(25))
          /\ screen.wrapped_lines = << >>

---------------------------------------------------------------------------
(* The cursor-motion operations and the window they are said to stay in.   *)

MotionOps ==
    {"cursor_up", "cursor_down", "cursor_forward", "cursor_back", "cursor_position",
     "cursor_to_column", "cursor_to_line"}

\* (top, bottom) of the bound: the margins when they are set and the
\* operation passes use_margins (cursor_up, cursor_down) or DECOM is set,
\* else the whole height.
MotionBounds(s, op) ==
    IF s.margins # None /\ (op \in {"cursor_up", "cursor_down"} \/ DECOM \in s.mode)
    THEN s.margins[1] ELSE [top |-> 0, bottom |-> s.lines - 1]

(* C28: after every cursor-motion operation (cursor_up, cursor_down,        *)
(* cursor_forward, cursor_back, cursor_position, cursor_to_column,          *)
(* cursor_to_line) on a screen of at least one column and one line,         *)
(* 0 <= cursor.x <= columns - 1 and line_offset + top <= cursor.y <=        *)
(* line_offset + bottom.                                                    *)
C28_MotionInsideWindow ==
    (lastop \in MotionOps /\ screen.raised = "") =>
        /\ 0 <= screen.cursor.x /\ screen.cursor.x <= screen.columns - 1
        /\ line_offset(screen) + MotionBounds(screen, lastop).top <= screen.cursor.y
        /\ screen.cursor.y <= line_offset(screen) + MotionBounds(screen, lastop).bottom

---------------------------------------------------------------------------
(* SpecLines: insert_lines and delete_lines. The Screen starts with some    *)
(* rows of text written by draw, carriage_return and linefeed (more rows    *)
(* than lines scroll the window), margins are set and the cursor is moved,  *)
(* and then one of the two methods is called once. snap is the Screen       *)
(* before that call and events holds the call with its count. For           *)
(* delete_lines, shadow tells which row object each index of data_buffer    *)
(* refers to after the call.                                                *)

\* Lines of the screen, and rows of text written at the start.
MaxLines == 3
MaxRows == 4

RowTexts == <<"p", "q", "r", "s", "t", "u">>

EditCounts == 1..(MaxArg + 1)

\* k rows of one letter each, the cursor left on the row after the last.
RECURSIVE fill_rows(_, _, _)
fill_rows(s, i, k) ==
    IF i > k \/ s.cursor.y < 0 THEN s
    ELSE fill_rows(linefeed(carriage_return(draw(s, <<RowTexts[i]>>))), i + 1, k)

\* The loop of delete_lines on the row objects: ids maps each index of
\* data_buffer to the object it refers to, fresh is the next new object
\* (reading a missing index of the defaultdict creates one).
RECURSIVE delete_lines_ids(_, _, _, _, _, _)
delete_lines_ids(ids, line, bottom, lo, count, fresh) ==
    IF line > bottom THEN ids
    ELSE IF line + count > bottom
    THEN delete_lines_ids(PopRow(ids, line + lo), line + 1, bottom, lo, count, fresh)
    ELSE LET src == line + count + lo
             made == src \notin DOMAIN ids
             obj == IF made THEN fresh ELSE ids[src]
         IN delete_lines_ids(PutRow(PutRow(ids, src, obj), line + lo, obj),
                             line + 1, bottom, lo, count,
                             IF made THEN fresh - 1 ELSE fresh)

\* Every row of the buffer is an object of its own, named by its index; new
\* objects get negative names.
RowObjects(s) == [r \in DOMAIN s.data_buffer |-> r]

row_objects_after_delete(s, count) ==
    LET m == margins_or_full(s)
        lo == line_offset(s)
        c == s.cursor.y - lo
    IN IF m.top <= c /\ c <= m.bottom
       THEN delete_lines_ids(RowObjects(s), c, m.bottom, lo, Or1(count), 0 - 1)
       ELSE RowObjects(s)

InitLines ==
    /\ \E l \in 2..MaxLines, k \in 0..MaxRows : screen = fill_rows(NewScreen(l, 2, 2000), 1, k)
    /\ shadow = None /\ snap = None /\ phase = "setup" /\ lastop = "init" /\ steps = 0
    /\ DriverIdle

LinesSetMargins ==
    \E t \in 1..MaxLines, b \in 1..MaxLines :
        Op("set_margins", set_margins(Begin(screen), t, b))

LinesSetup ==
    /\ InSetup
    /\ \/ LinesSetMargins \/ CursorUp \/ CursorDown \/ Draw \/ CarriageReturn

InsertLinesOnce ==
    /\ phase = "setup"
    /\ \E n \in EditCounts :
          /\ screen' = insert_lines(Begin(screen), n)
          /\ events' = <<Event("insert_lines", n)>>
    /\ snap' = Begin(screen)
    /\ shadow' = None
    /\ phase' = "edited"
    /\ lastop' = "insert_lines"
    /\ UNCHANGED <<steps, proc, deferred, fed>>

DeleteLinesOnce ==
    /\ phase = "setup"
    /\ \E n \in EditCounts :
          /\ screen' = delete_lines(Begin(screen), n)
          /\ shadow' = row_objects_after_delete(screen, n)
          /\ events' = <<Event("delete_lines", n)>>
    /\ snap' = Begin(screen)
    /\ phase' = "edited"
    /\ lastop' = "delete_lines"
    /\ UNCHANGED <<steps, proc, deferred, fed>>

NextLines == LinesSetup \/ InsertLinesOnce \/ DeleteLinesOnce

SpecLines == InitLines /\ [][NextLines]_vars

\* The call under test: its count, the region and the cursor row, all in
\* rows of the window of the Screen before the call.
EditCount == events[1].id
EditOffset == line_offset(snap)
EditRegion == margins_or_full(snap)
EditRow == snap.cursor.y - EditOffset
EditInside == EditRegion.top <= EditRow /\ EditRow <= EditRegion.bottom

OldRow(r) == Row(snap.data_buffer, r + EditOffset)
NewRow(r) == Row(screen.data_buffer, r + EditOffset)

\* Rows above the cursor row and rows below the bottom margin are as before.
OutsideRowsUnchanged ==
    \A y \in (DOMAIN snap.data_buffer) \cup (DOMAIN screen.data_buffer) :
        (y < EditRow + EditOffset \/ y > EditRegion.bottom + EditOffset)
            => Row(screen.data_buffer, y) = Row(snap.data_buffer, y)

(* C29: insert_lines(n), n >= 1, with the cursor on row c inside the scroll *)
(* region [top, bottom]: every row above c and every row below bottom is    *)
(* unchanged, rows c..c+n-1 become empty, each row r in [c+n, bottom] holds *)
(* the former content of row r-n, and cursor.x becomes 0; with the cursor   *)
(* outside the region nothing changes.                                      *)
C29_InsertLines ==
    (phase = "edited" /\ lastop = "insert_lines") =>
        IF EditInside
        THEN /\ OutsideRowsUnchanged
             /\ \A r \in EditRow..EditRegion.bottom :
                   IF r < EditRow + EditCount
                   THEN NewRow(r) = EmptyRow
                   ELSE NewRow(r) = OldRow(r - EditCount)
             /\ screen.cursor = [x |-> 0, y |-> snap.cursor.y]
        ELSE screen = snap

---------------------------------------------------------------------------
(* SpecScroll: index and cursor_down. The Screen starts as in SpecLines,    *)
(* margins are set and the cursor is moved (cursor_to_line can put it below *)
(* the bottom margin), and then index or cursor_down is called once. snap   *)
(* is the Screen before that call and events holds the call.                *)

ScrollToLine ==
    \E l \in 1..(MaxLines + 1) : Op("cursor_to_line", cursor_to_line(Begin(screen), l))

ScrollSetup ==
    /\ InSetup
    /\ \/ LinesSetMargins \/ CursorUp \/ CursorDown \/ ScrollToLine \/ Draw

IndexOnce ==
    /\ phase = "setup"
    /\ screen' = index(Begin(screen))
    /\ events' = <<Event("index", NoArg)>>
    /\ snap' = Begin(screen)
    /\ phase' = "edited"
    /\ lastop' = "index"
    /\ UNCHANGED <<shadow, steps, proc, deferred, fed>>

CursorDownOnce ==
    /\ phase = "setup"
    /\ \E n \in EditCounts :
          /\ screen' = cursor_down(Begin(screen), n)
          /\ events' = <<Event("cursor_down", n)>>
    /\ snap' = Begin(screen)
    /\ phase' = "edited"
    /\ lastop' = "cursor_down"
    /\ UNCHANGED <<shadow, steps, proc, deferred, fed>>

NextScroll == ScrollSetup \/ IndexOnce \/ CursorDownOnce

SpecScroll == InitLines /\ [][NextScroll]_vars

\* Rows above the top margin and rows below the bottom margin are as before.
OutsideRegionUnchanged ==
    \A y \in (DOMAIN snap.data_buffer) \cup (DOMAIN screen.data_buffer) :
        (y < EditRegion.top + EditOffset \/ y > EditRegion.bottom + EditOffset)
            => Row(screen.data_buffer, y) = Row(snap.data_buffer, y)

(* C31: with margins (top, bottom) set and the cursor on the bottom margin  *)
(* row, index leaves the cursor, max_y and every row outside [top, bottom]  *)
(* unchanged, moves the content of each row r+1 to row r for r in           *)
(* [top, bottom-1], and leaves the bottom margin row empty; no scrollback   *)
(* row is created.                                                          *)
C31_IndexScrollsRegion ==
    (phase = "edited" /\ lastop = "index" /\ snap.margins # None
        /\ EditRow = EditRegion.bottom) =>
        /\ screen.cursor = snap.cursor
        /\ screen.max_y = snap.max_y
        /\ OutsideRegionUnchanged
        /\ \A r \in EditRegion.top..(EditRegion.bottom - 1) : NewRow(r) = OldRow(r + 1)
        /\ NewRow(EditRegion.bottom) = EmptyRow
        /\ line_offset(screen) = EditOffset
        /\ {y \in DOMAIN screen.data_buffer : y < EditOffset}
              = {y \in DOMAIN snap.data_buffer : y < EditOffset}

\* C31's case: a region that does not start on the first line of a scrolled
\* window was scrolled, with text on its second row and below the region.
C31_Witness ==
    /\ phase = "edited" /\ lastop = "index" /\ snap.margins # None
    /\ EditRow = EditRegion.bottom
    /\ EditOffset > 0 /\ EditRegion.top > 0
    /\ OldRow(EditRegion.top) # EmptyRow
    /\ OldRow(EditRegion.top + 1) # EmptyRow
    /\ OldRow(EditRegion.top) # OldRow(EditRegion.top + 1)
    /\ NewRow(EditRegion.top) = OldRow(EditRegion.top + 1)

(* C32: cursor_down(n) and index never decrease cursor.y, also with margins *)
(* set and the cursor below the bottom margin, and the cursor stops at the  *)
(* bottom margin when it started inside the region.                         *)
C32_DownNeverUp ==
    (phase = "edited" /\ lastop \in {"index", "cursor_down"}) =>
        /\ screen.cursor.y >= snap.cursor.y
        /\ (snap.margins # None /\ EditInside) =>
              screen.cursor.y <= EditRegion.bottom + EditOffset

---------------------------------------------------------------------------
(* C33: after a resize(lines, columns) that changes the dimensions, the     *)
(* data buffer has no row with an index greater than cursor.y + lines, and  *)
(* max_y <= cursor.y + lines - 1.                                           *)
C33_NoRowsBelowWindowAfterResize ==
    phase = "resized" =>
        /\ \A y \in DOMAIN screen.data_buffer : y <= screen.cursor.y + screen.lines
        /\ screen.max_y <= screen.cursor.y + screen.lines - 1

---------------------------------------------------------------------------
(* SpecErase: the Screen starts as in SpecLines (with no text at all, or    *)
(* with rows of text, scrolled or not), is drawn on and the cursor moved by *)
(* linefeeds, and then erase_in_display(3) is called once.                  *)

EraseSetup ==
    /\ InSetup
    /\ \/ Linefeed \/ Draw \/ CursorUp \/ CarriageReturn

EraseSavedLinesOnce ==
    /\ phase = "setup"
    /\ screen' = erase_in_display(Begin(screen), 3)
    /\ events' = <<Event("erase_in_display", 3)>>
    /\ snap' = Begin(screen)
    /\ phase' = "edited"
    /\ lastop' = "erase_in_display"
    /\ UNCHANGED <<shadow, steps, proc, deferred, fed>>

NextErase == EraseSetup \/ EraseSavedLinesOnce

SpecErase == InitLines /\ [][NextErase]_vars

(* C34: in every Screen state, also one in which linefeeds moved the cursor *)
(* down and no cell was ever written, erase_in_display(3) leaves the data   *)
(* buffer without scrollback rows and sets cursor.y = 0 and max_y = 0.      *)
C34_EraseSavedLines ==
    (phase = "edited" /\ lastop = "erase_in_display") =>
        /\ screen.data_buffer = EmptyBuffer
        /\ screen.cursor.y = 0
        /\ screen.max_y = 0

---------------------------------------------------------------------------
(* SpecAnsi: private modes are set and reset, then set_mode or reset_mode   *)
(* is called once with a non-private code. snap is the Screen before that   *)
(* call.                                                                    *)

\* Largest non-private code tried.
MaxAnsi == 32

\* The private modes behind the predicates of the Screen: DECCKM, the mouse
\* modes, bracketed paste and the alternate screen.
FlagModes == {1, 1000, 1006, 1015, 2004, 1049}

in_application_mode(s) == Private(1) \in s.mode

InitAnsi ==
    /\ screen = NewScreen(2, 2, 1)
    /\ shadow = None /\ snap = None /\ phase = "setup" /\ lastop = "init" /\ steps = 0
    /\ DriverIdle

AnsiSetup ==
    /\ InSetup
    /\ \/ \E m \in FlagModes : Op("set_mode", set_mode(Begin(screen), {m}, TRUE))
       \/ \E m \in FlagModes : Op("reset_mode", reset_mode(Begin(screen), {m}, TRUE))

AnsiSetOnce ==
    /\ phase = "setup"
    /\ \E n \in 1..MaxAnsi :
          /\ screen' = set_mode(Begin(screen), {n}, FALSE)
          /\ events' = <<Event("set_mode", n)>>
    /\ snap' = Begin(screen)
    /\ phase' = "edited"
    /\ lastop' = "set_mode"
    /\ UNCHANGED <<shadow, steps, proc, deferred, fed>>

AnsiResetOnce ==
    /\ phase = "setup"
    /\ \E n \in 1..MaxAnsi :
          /\ screen' = reset_mode(Begin(screen), {n}, FALSE)
          /\ events' = <<Event("reset_mode", n)>>
    /\ snap' = Begin(screen)
    /\ phase' = "edited"
    /\ lastop' = "reset_mode"
    /\ UNCHANGED <<shadow, steps, proc, deferred, fed>>

NextAnsi == AnsiSetup \/ AnsiSetOnce \/ AnsiResetOnce

SpecAnsi == InitAnsi /\ [][NextAnsi]_vars

(* C35: setting or resetting a non-private (ANSI) mode code never changes a *)
(* private-mode flag: for every code n up to 32 = 1 << 5, set_mode(n) and   *)
(* reset_mode(n) without private leave in_application_mode,                 *)
(* bracketed_paste_enabled, the mouse-mode predicates and the               *)
(* alternate-screen state unchanged.                                        *)
C35_AnsiModeKeepsPrivateFlags ==
    phase = "edited" =>
        /\ in_application_mode(screen) = in_application_mode(snap)
        /\ bracketed_paste_enabled(screen) = bracketed_paste_enabled(snap)
        /\ mouse_support_enabled(screen) = mouse_support_enabled(snap)
        /\ urxvt_mouse_support_enabled(screen) = urxvt_mouse_support_enabled(snap)
        /\ sgr_mouse_support_enabled(screen) = sgr_mouse_support_enabled(snap)
        /\ in_alternate_screen(screen) = in_alternate_screen(snap)

---------------------------------------------------------------------------
(* SpecFlags: DECOM and DECAWM are set or reset, save_cursor is called,    *)
(* the flags are changed again, and restore_cursor is called; or           *)
(* restore_cursor is called while no savepoint is on the stack.            *)

SavedFlags == {6, 7}

SetFlag == \E m \in SavedFlags : Op("set_mode", set_mode(Begin(screen), {m}, TRUE))
ResetFlag == \E m \in SavedFlags : Op("reset_mode", reset_mode(Begin(screen), {m}, TRUE))

FlagSetup ==
    /\ InSetup
    /\ \/ SetFlag \/ ResetFlag \/ SetMargins \/ Linefeed \/ Draw

FlagSavedOps ==
    /\ phase = "saved"
    /\ \/ SetFlag \/ ResetFlag \/ CursorDown \/ CursorForward

RestoreEmpty ==
    /\ phase = "setup"
    /\ screen.savepoints = << >>
    /\ shadow' = screen
    /\ screen' = restore_cursor(Begin(screen))
    /\ phase' = "restored"
    /\ lastop' = "restore_cursor"
    /\ UNCHANGED <<snap, steps, driverVars>>

NextFlags == FlagSetup \/ SaveNow \/ FlagSavedOps \/ RestoreNow \/ RestoreEmpty

SpecFlags == InitSetup /\ [][NextFlags]_vars

(* C36: after restore_cursor the DECOM and DECAWM flags are the ones the    *)
(* matching save_cursor captured, whatever was set or reset in between;    *)
(* with no savepoint on the stack restore_cursor leaves DECOM reset and    *)
(* the cursor at the home position.                                        *)
C36_RestoreCursorFlags ==
    phase = "restored" =>
        IF shadow.savepoints = << >>
        THEN /\ DECOM \notin screen.mode
             /\ screen.cursor = [x |-> 0, y |-> line_offset(screen)]
        ELSE /\ (DECOM \in screen.mode) = (DECOM \in snap.mode)
             /\ (DECAWM \in screen.mode) = (DECAWM \in snap.mode)

---------------------------------------------------------------------------
(* C37: in every reachable Screen the show_cursor flag of the rendered     *)
(* screen is true exactly when DECTCEM is in the mode set, the alternate   *)
(* screen entered or left with DECTCEM changed before or during it         *)
(* included.                                                               *)
C37_ShowCursorIsDectcem == screen.show_cursor = (DECTCEM \in screen.mode)

---------------------------------------------------------------------------
\* The invalidate calls of a log.
Invalidates(ev) == SelectSeq(ev, LAMBDA e : e.op = "invalidate")

(* C38: while the driver is suspended, from suspend() to the next resume(), *)
(* no step feeds a chunk to the parser or calls invalidate, a do_asap       *)
(* callback posted by _read before the suspend() included.                 *)
C38_NoFeedWhileSuspended ==
    [][proc.suspended => (fed' = fed /\ Invalidates(events') = Invalidates(events))]_vars

---------------------------------------------------------------------------
(* C39: in every reachable state of the driver on the POSIX backend, a     *)
(* reader connected to the event loop implies that the driver is not       *)
(* suspended and that the master fd is still open, under every             *)
(* interleaving of start, _read, the deferred callbacks, suspend, resume   *)
(* and the end of the child.                                               *)
C39_ReaderImpliesRunning ==
    proc.loop_reader => (~proc.suspended /\ proc.master_open)

---------------------------------------------------------------------------
(* SpecAltWrap: as SpecAlt, and after the alternate screen was left the     *)
(* Screen is resized to a new width; shadow is the Screen of before the    *)
(* visit (snap) resized the same way.                                      *)

ResizeAfterVisit ==
    /\ phase = "back"
    /\ \E l \in Dims, c \in Dims :
          /\ c # screen.columns
          /\ screen' = resize(Begin(screen), l, c)
          /\ shadow' = resize(Begin(snap), l, c)
    /\ phase' = "rejoined"
    /\ lastop' = "resize"
    /\ UNCHANGED <<snap, steps, driverVars>>

NextAltWrap == AltSetup \/ EnterAlt \/ AltOps \/ LeaveAlt \/ ResizeAfterVisit

SpecAltWrap == InitSetup /\ [][NextAltWrap]_vars

(* C40: set_mode(1049) followed by reset_mode(1049) leaves wrapped_lines of *)
(* the primary screen as it was before the set_mode, and a resize after it  *)
(* gives the rows and wrapped_lines that the same resize gives without the  *)
(* visit of the alternate screen.                                          *)
C40_AltScreenKeepsWrappedLines ==
    /\ phase = "back" => screen.wrapped_lines = snap.wrapped_lines
    /\ phase = "rejoined" =>
          /\ screen.data_buffer = shadow.data_buffer
          /\ screen.wrapped_lines = shadow.wrapped_lines

===========================================================================
